---- MODULE Spec2Model ----
(***************************************************************************)
(* Model of the device-actuation and UI-perception layer of AW-ReAct:      *)
(* the coordinate transform of RealTimeOperationRecorder, the element      *)
(* resolvers of the init-step classes, the replay of a recorded operation  *)
(* sequence by the generated TaskOperationExecutor, and the recorder's     *)
(* listener for touch and key events.                                      *)
(***************************************************************************)
EXTENDS Integers, Sequences, FiniteSets, TLC

VARIABLES
    \* ---- RealTimeOperationRecorder geometry (auto_init_workflow.py) ----
    raw_min_x, raw_max_x, raw_min_y, raw_max_y,
    geom_pc,        \* "new" before _init_touch_device_bounds, "ready" after it,
                    \* "converted" once a touch event has been converted
    probe_status,   \* how _init_touch_device_bounds ended: "ok", or what raised
    conv,           \* last _convert_raw_to_screen call, or NoConv
    \* ---- one call of an init-step helper (single/*_init_steps.py) ----
    res_pc,         \* "idle" before the call, "done" once it returned or raised
    res_call,       \* the helper called and its arguments
    res_snapshot,   \* the ui_elements the call captured with get_state
    res_out,        \* how the call ended and what it sent to the device
    sim_name,       \* the name _similarize_name is called with
    sim_out,        \* <<>> before the call, <<the name it returned>> after it
    \* ---- TaskOperationExecutor.run_operations, as JsonToScriptGenerator ----
    \* ---- writes it from a recorded sequence                            ----
    rp_ops,         \* the operations of the JSON file the script was generated from
    rp_status,      \* "idle", "new", "running", "done" or "failed"
    rp_pc,          \* number of steps of run_operations that have run
    rp_trace,       \* one record per step that ran: what the device answered
                    \* and what the step did
    tw_trace,       \* the same script run once more, on an environment that
                    \* answers as the first did
    \* ---- RealTimeOperationRecorder: the recorded list and its file ----
    rec_pc,         \* "idle", "recording" (is_recording) or "stopped"
    rec_ops,        \* self.operations
    json_file,      \* the file at self.output_json
    rec_stamps,     \* the "timestamp" of each operation, in milliseconds
    \* ---- RealTimeOperationRecorder: the listener thread ----
    rec_adb,        \* "off", "listening", or "lost" once the listener has
                    \* seen the adb connection fail
    rec_acc,        \* self._coord_cache: per device the pending raw X and Y
    rec_kbd,        \* self._keyboard_cache: per device the pending text
    rec_threads,    \* devices with a started timeout_callback thread that has
                    \* not run yet
    rec_ui,         \* self.ui_elements, and whether the last capture succeeded
    rec_lines,      \* number of getevent lines the listener has read
    rec_line,       \* the last line it read
    rec_job,        \* the _record_operation call the listener is in, between
                    \* its WAIT and its append of the operation
    rec_keys,       \* the devices that have an entry in _keyboard_cache
    rec_typed,      \* number of "[键盘输入] 当前文本" lines in the debug log: the
                    \* characters appended to a cached text in this session
    rec_main        \* the main thread: outside stop_recording, in its loop over
                    \* _keyboard_cache.items(), or out of it by an exception;
                    \* and the calls it made that returned at their first test

coordVars == <<raw_min_x, raw_max_x, raw_min_y, raw_max_y, geom_pc, probe_status, conv>>

resolveVars == <<res_pc, res_call, res_snapshot, res_out, sim_name, sim_out>>

replayVars == <<rp_ops, rp_status, rp_pc, rp_trace, tw_trace>>

listenVars == <<rec_adb, rec_acc, rec_kbd, rec_threads, rec_ui, rec_lines, rec_line,
               rec_job, rec_keys, rec_typed, rec_main>>

recordVars == <<rec_pc, rec_ops, json_file, rec_stamps, listenVars>>

vars == <<raw_min_x, raw_max_x, raw_min_y, raw_max_y, geom_pc, probe_status, conv,
          res_pc, res_call, res_snapshot, res_out, sim_name, sim_out,
          rp_ops, rp_status, rp_pc, rp_trace, tw_trace,
          rec_pc, rec_ops, json_file, rec_stamps,
          rec_adb, rec_acc, rec_kbd, rec_threads, rec_ui, rec_lines, rec_line,
          rec_job, rec_keys, rec_typed, rec_main>>

(***************************************************************************)
(* Bounds and program constants                                            *)
(***************************************************************************)
MaxLines == 2            \* lines of getevent output that name an axis
MaxSnapLen == 2          \* UI elements in a snapshot
MaxCands == 2            \* candidate strings in target_texts / target_descs
MaxOps == 2              \* operations in the JSON file a script is generated from
MaxRecorded == 3         \* operations one recording session leaves in its list
MaxNameLen == 3          \* characters of a name given to _similarize_name
MaxEvents == 3           \* getevent lines the listener reads

ScreenWidth == 1080
ScreenHeight == 2400
DefaultRawMin == 0
DefaultRawMax == 32767
MantBits == 53           \* significand of a Python float (IEEE-754 binary64)


\* Values a probe can report and raw values an event can carry.
ProbeValues == {0, 13, 45, DefaultRawMax, DefaultRawMax + 1}
RawInputs == ProbeValues \cup {16000}

SeqsUpTo(S, n) == UNION {[1..k -> S] : k \in 0..n}

(***************************************************************************)
(* Python float arithmetic: int(a / d * w) for integers 0 < a < d, w > 0.  *)
(* a / d is the correctly rounded binary64 quotient, the product is        *)
(* rounded again, and int() truncates.  Bit strings are most significant   *)
(* bit first.                                                              *)
(***************************************************************************)
\* 2^i mod d without leaving 32-bit integers (d <= 2^16).
RECURSIVE PowMod2(_, _)
PowMod2(i, d) ==
    IF i <= 14 THEN (2 ^ i) % d
    ELSE (PowMod2(i - 14, d) * ((2 ^ 14) % d)) % d

\* The n low bits of c, most significant first.
ToBits(c, n) == [j \in 1..n |-> (c \div (2 ^ (n - j))) % 2]

RECURSIVE BitsToInt(_)
BitsToInt(b) ==
    IF Len(b) = 0 THEN 0
    ELSE 2 * BitsToInt(SubSeq(b, 1, Len(b) - 1)) + b[Len(b)]

\* Smallest k >= 1 with a * 2^k >= d, for 0 < a < d.
RECURSIVE NormShift(_, _)
NormShift(a, d) == IF 2 * a >= d THEN 1 ELSE 1 + NormShift(2 * a, d)

\* The remainder of r * 2^n by d, and the first n quotient bits of r / d
\* (r < d): bit i is set when doubling the remainder before it reaches d.
LongRem(r, d, n) == (r * PowMod2(n, d)) % d

LongDiv(r, d, n) ==
    [i \in 1..n |-> IF 2 * LongRem(r, d, i - 1) >= d THEN 1 ELSE 0]

LeadingOne(b) ==
    IF \E j \in 1..Len(b) : b[j] = 1
    THEN CHOOSE j \in 1..Len(b) : b[j] = 1 /\ \A i \in 1..(j - 1) : b[i] = 0
    ELSE 0

\* Round-to-nearest-even of bit string b at position last (bits after it are
\* dropped to 0); sticky tells whether non-zero bits follow b itself.
RoundNearestEven(b, last, sticky) ==
    IF last >= Len(b) THEN b
    ELSE LET guard == b[last + 1]
             rest  == sticky \/ \E j \in (last + 2)..Len(b) : b[j] = 1
             up    == guard = 1 /\ (rest \/ b[last] = 1)
         IN  [j \in 1..Len(b) |->
                 IF j > last THEN 0
                 ELSE IF up /\ \A i \in (j + 1)..last : b[i] = 1
                      THEN 1 - b[j]
                      ELSE b[j]]

\* b * w for a small integer w (w < 2^15), by 15-bit limbs from the least
\* significant one; b has 60 bits and the result 75.
Limb(b, j) == BitsToInt(SubSeq(b, 15 * (j - 1) + 1, 15 * j))

RECURSIVE MulCarry(_, _, _)
MulCarry(b, j, w) ==
    IF j > 4 THEN 0 ELSE (Limb(b, j) * w + MulCarry(b, j + 1, w)) \div (2 ^ 15)

MulSmall(b, w) ==
    ToBits(MulCarry(b, 1, w), 15)
        \o ToBits((Limb(b, 1) * w + MulCarry(b, 2, w)) % (2 ^ 15), 15)
        \o ToBits((Limb(b, 2) * w + MulCarry(b, 3, w)) % (2 ^ 15), 15)
        \o ToBits((Limb(b, 3) * w + MulCarry(b, 4, w)) % (2 ^ 15), 15)
        \o ToBits((Limb(b, 4) * w) % (2 ^ 15), 15)

FloatQuotientTimes(a, d, w) ==
    LET k     == NormShift(a, d)
        r0    == a * (2 ^ (k - 1))
        qraw  == <<0>> \o LongDiv(r0, d, MantBits + 1)
        q     == SubSeq(RoundNearestEven(qraw, MantBits + 1,
                                         LongRem(r0, d, MantBits + 1) # 0),
                        1, MantBits + 1)
        \* the integer q stands for the float q * 2^-(MantBits - 1 + k)
        p     == MulSmall(ToBits(0, 60 - Len(q)) \o q, w)
        pr    == RoundNearestEven(p, LeadingOne(p) + MantBits - 1, FALSE)
        nInt  == Len(p) - (MantBits - 1 + k)
    IN  IF nInt <= 0 THEN 0 ELSE BitsToInt(SubSeq(pr, 1, nInt))

\* Variant: the scaled value rounded to the nearest integer instead of truncated.
PyIntScaleRounded(a, d, w) ==
    IF d > 0 THEN (2 * a * w + d) \div (2 * d) ELSE 0

\* int(a / d * w) as Python evaluates it; d # 0 (d = 0 raises ZeroDivisionError).
PyIntScale(a, d, w) ==
    IF a = 0 THEN 0
    ELSE IF a = d THEN w
    ELSE FloatQuotientTimes(a, d, w)

(***************************************************************************)
(* UI elements and Python strings.  A string is a sequence of characters;  *)
(* NoneStr stands for None (and for the default of getattr on a missing    *)
(* attribute), which like "" is falsy.                                     *)
(***************************************************************************)
NoneStr == <<"None">>

\* Candidate strings of a query and the strings an element can carry.
ElemStrs == {NoneStr, <<>>, <<"O">>, <<"O", "k">>}

\* A helper reads one attribute of an element, or none: the snapshots of a
\* text query vary the text, those of a description query the
\* content_description, those of an index helper only their length.
AnyElement == [text |-> NoneStr, content_description |-> NoneStr]

PlainSnapshots == SeqsUpTo({AnyElement}, MaxSnapLen)
DescSnapshots == SeqsUpTo([text : {NoneStr}, content_description : ElemStrs], MaxSnapLen)
CandLists == SeqsUpTo({<<>>, <<"o">>, <<"O", "K">>}, MaxCands)

\* Optional[int]: <<>> is None, <<i>> is the index i.  Indexes reach one
\* below the first element and the length of the longest snapshot.
NoIndex == <<>>
Indexes == (0 - 1)..MaxSnapLen
OptIndexes == {NoIndex} \cup {<<i>> : i \in Indexes}

\* fallback_index values for a helper that never reads the parameter.
UnreadFallbacks == {NoIndex, <<0>>}

Truthy(str) == str # NoneStr /\ str # <<>>

LowerChar(c) ==
    CASE c = "O" -> "o"
      [] c = "K" -> "k"
      [] c = "E" -> "e"
      [] c = "U" -> "u"
      [] OTHER -> c

\* str.lower()
Lower(str) == [i \in 1..Len(str) |-> LowerChar(str[i])]

\* needle in hay
Contains(hay, needle) ==
    \E i \in 0..(Len(hay) - Len(needle)) :
        SubSeq(hay, i + 1, i + Len(needle)) = needle

\* Variant: the text comparison done as a substring test.
TextMatchesSubstring(elem, text) ==
    Truthy(elem.text) /\ Contains(Lower(elem.text), Lower(text))

\* elem_text and text.lower() == elem_text.lower()
TextMatches(elem, text) ==
    Truthy(elem.text) /\ Lower(text) = Lower(elem.text)

\* Variant: the description compared for equality.
DescMatchesExact(elem, target) ==
    Truthy(elem.content_description)
        /\ Lower(target) = Lower(elem.content_description)

\* desc and target.lower() in desc.lower()
DescMatches(elem, target) ==
    Truthy(elem.content_description)
        /\ Contains(Lower(elem.content_description), Lower(target))

\* The inner loop `for idx, elem in enumerate(ui_elements)`: the 0-based index
\* of the first element that matches, or -1 when the loop ends without one.
FirstTextIndex(elems, text) ==
    IF \E i \in 1..Len(elems) : TextMatches(elems[i], text)
    THEN (CHOOSE i \in 1..Len(elems) :
             /\ TextMatches(elems[i], text)
             /\ \A j \in 1..(i - 1) : ~TextMatches(elems[j], text)) - 1
    ELSE 0 - 1

FirstDescIndex(elems, target) ==
    IF \E i \in 1..Len(elems) : DescMatches(elems[i], target)
    THEN (CHOOSE i \in 1..Len(elems) :
             /\ DescMatches(elems[i], target)
             /\ \A j \in 1..(i - 1) : ~DescMatches(elems[j], target)) - 1
    ELSE 0 - 1

(***************************************************************************)
(* Outcome of a helper call: the exception that left it ("none" when it    *)
(* returned), the commands handed to actuation.execute_adb_action in       *)
(* order, and the warning-level log records.  execute_adb_action belongs   *)
(* to the device layer: it either performs the command or raises.          *)
(***************************************************************************)
IndexCmd(kind, idx) ==
    [kind |-> kind, by |-> "index", index |-> idx, x |-> 0, y |-> 0, text |-> <<>>]
\* The click actuation.find_and_click_element performs on the element it found
\* itself; which element that is belongs to the device layer.
FoundCmd ==
    [kind |-> "click", by |-> "find_and_click_element", index |-> 0, x |-> 0, y |-> 0,
     text |-> <<>>]
CoordCmd(kind, px, py) ==
    [kind |-> kind, by |-> "coords", index |-> 0, x |-> px, y |-> py, text |-> <<>>]

\* via names the resolution that produced the target of the command: "text",
\* "desc", "index", "fallback_index", "coords", or "none".
\* report is what a raised exception tells its catcher: the resolution
\* failures its message names.  Every raise of the helpers stands outside the
\* except blocks, so no earlier exception is chained to it.
Returned(cmds, warnings, via) ==
    [raised |-> "none", cmds |-> cmds, warnings |-> warnings, via |-> via, report |-> {}]
RaisedWith(exc, report, cmds, warnings, via) ==
    [raised |-> exc, cmds |-> cmds, warnings |-> warnings, via |-> via, report |-> report]
Raised(exc, cmds, warnings, via) == RaisedWith(exc, {}, cmds, warnings, via)

\* raise IndexError(f"...索引{index}无效：...UI元素共{len(ui_elements)}个")
IndexOutOfRange == RaisedWith("IndexError", {"IndexOutOfRange"}, <<>>, <<>>, "none")
\* raise RuntimeError("...文本匹配失败且无兜底索引")
NoTextMatchNoFallback ==
    RaisedWith("RuntimeError", {"NoTextMatch", "NoFallbackIndex"}, <<>>, <<>>, "none")
\* raise RuntimeError("...未找到匹配 content_description 的元素")
NoDescriptionMatch ==
    RaisedWith("RuntimeError", {"NoDescriptionMatch"}, <<>>, <<>>, "none")

\* execute_adb_action(cmd) followed by the rest of the helper (log, sleep);
\* the warnings are logged after the command, so a raise loses them.
Execute(cmd, act_ok, warnings, via) ==
    IF act_ok THEN Returned(<<cmd>>, warnings, via)
    ELSE Raised("ActuationError", <<cmd>>, <<>>, via)

\* Variant: the index test accepts index = len(ui_elements).
IndexValidInclusive(idx, elems) == 0 <= idx /\ idx <= Len(elems)

\* The index validity test `0 <= index < len(ui_elements)`.
IndexValid(idx, elems) == 0 <= idx /\ idx < Len(elems)

\* TaskOperationExecutor._click_by_index (real_time_operations_script.py 56-85)
ClickByIndexResult(elems, idx, act_ok) ==
    IF ~IndexValid(idx, elems) THEN IndexOutOfRange
    ELSE Execute(IndexCmd("click", idx), act_ok, <<>>, "index")

\* _long_press_by_text (audio_recorder_init_steps.py 454-518): the candidate
\* loop, then the fallback index.
RECURSIVE LongPressByTextLoop(_, _, _, _)
LongPressByTextLoop(elems, texts, fallback, act_ok) ==
    IF Len(texts) = 0
    THEN IF fallback = NoIndex THEN NoTextMatchNoFallback
         ELSE IF ~IndexValid(fallback[1], elems)
              THEN IndexOutOfRange
              ELSE Execute(IndexCmd("long_press", fallback[1]), act_ok,
                           <<"fallback_index">>, "fallback_index")
    ELSE LET idx == FirstTextIndex(elems, Head(texts))
         IN  IF idx >= 0
             THEN Execute(IndexCmd("long_press", idx), act_ok, <<>>, "text")
             ELSE LongPressByTextLoop(elems, Tail(texts), fallback, act_ok)

\* What one call of actuation.find_and_click_element(text) does: it clicks the
\* element it found, raises ValueError (text not found), raises
\* AttributeError (the function is missing), or fails in the device layer
\* on the click it attempts.
FindLists(texts) ==
    [1..Len(texts) -> {"clicked", "ValueError", "AttributeError", "ActuationError"}]

\* Variant: the fallback click logs nothing.
FallbackClickSilent(elems, fallback, act_ok) ==
    IF fallback = NoIndex THEN NoTextMatchNoFallback
    ELSE IF ~IndexValid(fallback[1], elems)
         THEN IndexOutOfRange
         ELSE Execute(IndexCmd("click", fallback[1]), act_ok, <<>>, "fallback_index")

\* The index fallback of the text-click helpers
\* (audio_recorder_init_steps.py 157-183 and 353-371): the warning is logged
\* after execute_adb_action returned.
FallbackClick(elems, fallback, act_ok) ==
    IF fallback = NoIndex THEN NoTextMatchNoFallback
    ELSE IF ~IndexValid(fallback[1], elems)
         THEN IndexOutOfRange
         ELSE Execute(IndexCmd("click", fallback[1]), act_ok,
                      <<"fallback_index">>, "fallback_index")

\* _click_element_by_text (audio_recorder_init_steps.py 327-371): each
\* candidate goes to actuation.find_and_click_element; finds[k] is what the
\* call for the k-th candidate does.  Only ValueError is caught.  Then the
\* fallback index.
RECURSIVE ClickByTextLoop(_, _, _, _)
ClickByTextLoop(elems, finds, fallback, act_ok) ==
    IF Len(finds) = 0 THEN FallbackClick(elems, fallback, act_ok)
    ELSE CASE Head(finds) = "clicked" ->
                  Returned(<<FoundCmd>>, <<>>, "find_and_click_element")
           [] Head(finds) = "ValueError" ->
                  ClickByTextLoop(elems, Tail(finds), fallback, act_ok)
           [] Head(finds) = "AttributeError" ->
                  Raised("AttributeError", <<>>, <<>>, "none")
           [] OTHER ->
                  Raised("ActuationError", <<FoundCmd>>, <<>>, "find_and_click_element")

\* AudioRecorderInitSteps._click_element (audio_recorder_init_steps.py
\* 117-183): as above, but AttributeError logs a warning and leaves the loop
\* for the fallback index.
RECURSIVE ClickElementLoop(_, _, _, _)
ClickElementLoop(elems, finds, fallback, act_ok) ==
    IF Len(finds) = 0 THEN FallbackClick(elems, fallback, act_ok)
    ELSE CASE Head(finds) = "clicked" ->
                  Returned(<<FoundCmd>>, <<>>, "find_and_click_element")
           [] Head(finds) = "ValueError" ->
                  ClickElementLoop(elems, Tail(finds), fallback, act_ok)
           [] Head(finds) = "AttributeError" ->
                  [FallbackClick(elems, fallback, act_ok)
                      EXCEPT !.warnings = <<"find_and_click_element_failed">> \o @]
           [] OTHER ->
                  Raised("ActuationError", <<FoundCmd>>, <<>>, "find_and_click_element")

\* _click_element_by_content_description of AudioRecorderInitStepsWithTypingError
\* (audio_recorder_init_steps.py 374-411): the raise is the last statement of
\* the body of the outer loop, so it ends the first iteration that found
\* nothing; an empty target_descs returns without a command.  fallback_index
\* is never read.
ClickByDescAudioResult(elems, targets, fallback, act_ok) ==
    IF Len(targets) = 0 THEN Returned(<<>>, <<>>, "none")
    ELSE LET idx == FirstDescIndex(elems, Head(targets))
         IN  IF idx >= 0 THEN Execute(IndexCmd("click", idx), act_ok, <<>>, "desc")
             ELSE NoDescriptionMatch

\* _click_element_by_content_description of smsInitStepsWithSimilarContact
\* (sms_init_steps.py 114-149): no statement follows the loops, so the call
\* returns None when nothing matched.
RECURSIVE ClickByDescSmsLoop(_, _, _)
ClickByDescSmsLoop(elems, targets, act_ok) ==
    IF Len(targets) = 0 THEN Returned(<<>>, <<>>, "none")
    ELSE LET idx == FirstDescIndex(elems, Head(targets))
         IN  IF idx >= 0 THEN Execute(IndexCmd("click", idx), act_ok, <<>>, "desc")
             ELSE ClickByDescSmsLoop(elems, Tail(targets), act_ok)

CallFound(fn, targets, index, finds) ==
    [fn |-> fn, targets |-> targets, index |-> index, finds |-> finds]
Call(fn, targets, index) == CallFound(fn, targets, index, <<>>)

NoCall == Call("none", <<>>, NoIndex)
NoOutcome == Returned(<<>>, <<>>, "none")

ResolveStart ==
    /\ res_pc = "idle"
    /\ res_call = NoCall
    /\ res_snapshot = <<>>
    /\ res_out = NoOutcome
    /\ sim_name = <<>>
    /\ sim_out = <<>>

Finish(call, elems, out) ==
    /\ res_pc' = "done"
    /\ res_call' = call
    /\ res_snapshot' = elems
    /\ res_out' = out
    /\ UNCHANGED <<sim_name, sim_out, coordVars, replayVars, recordVars>>

ClickByIndex ==
    /\ res_pc = "idle"
    /\ \E elems \in PlainSnapshots, idx \in Indexes, act_ok \in BOOLEAN :
           Finish(Call("_click_by_index", <<>>, <<idx>>), elems,
                  ClickByIndexResult(elems, idx, act_ok))

LongPressElement ==
    /\ res_pc = "idle"
    /\ \E elems \in PlainSnapshots, idx \in Indexes, act_ok \in BOOLEAN :
           Finish(Call("_long_press_element", <<>>, <<idx>>), elems,
                  IF ~IndexValid(idx, elems) THEN IndexOutOfRange
                  ELSE Execute(IndexCmd("long_press", idx), act_ok, <<>>, "index"))

ClickElementByText ==
    /\ res_pc = "idle"
    /\ \E elems \in PlainSnapshots, texts \in CandLists, fb \in OptIndexes, act_ok \in BOOLEAN :
           \E finds \in FindLists(texts) :
               Finish(CallFound("_click_element_by_text", texts, fb, finds), elems,
                      ClickByTextLoop(elems, finds, fb, act_ok))

ClickElement ==
    /\ res_pc = "idle"
    /\ \E elems \in PlainSnapshots, texts \in CandLists, fb \in OptIndexes, act_ok \in BOOLEAN :
           \E finds \in FindLists(texts) :
               Finish(CallFound("_click_element", texts, fb, finds), elems,
                      ClickElementLoop(elems, finds, fb, act_ok))

LongPressByText ==
    /\ res_pc = "idle"
    /\ \E elems \in SeqsUpTo([text : ElemStrs, content_description : {NoneStr}], MaxSnapLen), texts \in CandLists, fb \in OptIndexes, act_ok \in BOOLEAN :
           Finish(Call("_long_press_by_text", texts, fb), elems,
                  LongPressByTextLoop(elems, texts, fb, act_ok))

ClickByDescAudio ==
    /\ res_pc = "idle"
    /\ \E elems \in DescSnapshots, targets \in CandLists, fb \in UnreadFallbacks, act_ok \in BOOLEAN :
           Finish(Call("_click_element_by_content_description", targets, fb), elems,
                  ClickByDescAudioResult(elems, targets, fb, act_ok))

ClickByDescSms ==
    /\ res_pc = "idle"
    /\ \E elems \in DescSnapshots, targets \in CandLists, fb \in UnreadFallbacks, act_ok \in BOOLEAN :
           Finish(Call("sms._click_element_by_content_description", targets, fb), elems,
                  ClickByDescSmsLoop(elems, targets, act_ok))

(***************************************************************************)
(* RealTimeOperationRecorder._init_touch_device_bounds                     *)
(* The output of `getevent -p` is a sequence of lines; a line is what the  *)
(* code reads of it: which axis name it contains, how many blank-separated *)
(* parts it has, and parts[3] and parts[5].                                *)
(***************************************************************************)
\* A part of a line: a string of digits with its value, or any other string.
NonDigit == [digit |-> FALSE, val |-> 0]

Tokens == {[digit |-> TRUE, val |-> v] : v \in ProbeValues} \cup {NonDigit}

IsDigit(t) == t.digit

ProbeLines ==
    {[axis |-> "other", nparts |-> 4, p3 |-> NonDigit, p5 |-> NonDigit]}
    \cup {[axis |-> ax, nparts |-> 4, p3 |-> NonDigit, p5 |-> NonDigit] :
             ax \in {"X", "Y"}}
    \cup {[axis |-> ax, nparts |-> 5, p3 |-> t, p5 |-> NonDigit] :
             ax \in {"X", "Y"}, t \in Tokens}
    \cup {[axis |-> ax, nparts |-> 6, p3 |-> t, p5 |-> u] :
             ax \in {"X", "Y"}, t \in Tokens, u \in Tokens}

\* The state after __init__ lines 38-43.
DefaultGeometry ==
    [min_x |-> DefaultRawMin, max_x |-> DefaultRawMax,
     min_y |-> DefaultRawMin, max_y |-> DefaultRawMax, raised |-> "ok"]

\* One iteration of the loop over output.splitlines() (lines 58-69).  With
\* exactly five parts and a numeric parts[3], parts[5] raises IndexError.
ApplyLine(g, ln) ==
    IF g.raised # "ok" \/ ln.axis = "other" THEN g
    ELSE IF ln.nparts >= 5 /\ IsDigit(ln.p3)
         THEN IF ln.nparts < 6 THEN [g EXCEPT !.raised = "IndexError"]
              ELSE IF IsDigit(ln.p5)
                   THEN IF ln.axis = "X"
                        THEN [g EXCEPT !.min_x = ln.p3.val, !.max_x = ln.p5.val]
                        ELSE [g EXCEPT !.min_y = ln.p3.val, !.max_y = ln.p5.val]
                   ELSE g
         ELSE g

RECURSIVE ApplyLines(_, _)
ApplyLines(g, lines) ==
    IF Len(lines) = 0 THEN g
    ELSE ApplyLines(ApplyLine(g, Head(lines)), Tail(lines))

SetGeometry(g) ==
    /\ raw_min_x' = g.min_x
    /\ raw_max_x' = g.max_x
    /\ raw_min_y' = g.min_y
    /\ raw_max_y' = g.max_y
    /\ probe_status' = g.raised
    /\ geom_pc' = "ready"

\* subprocess.run returned: the output is parsed (the whole try block; the
\* except branch, lines 78-80, only logs).  Lines 71-74: a degenerate axis
\* gets the default maximum.
InitTouchDeviceBounds ==
    /\ geom_pc = "new"
    /\ \E lines \in SeqsUpTo(ProbeLines, MaxLines) :
           LET g == ApplyLines(DefaultGeometry, lines)
           IN  SetGeometry(IF g.raised # "ok" THEN g
                           ELSE [g EXCEPT !.max_x = IF g.max_x <= g.min_x THEN DefaultRawMax
                                                    ELSE g.max_x,
                                          !.max_y = IF g.max_y <= g.min_y THEN DefaultRawMax
                                                    ELSE g.max_y])
    /\ UNCHANGED <<conv, resolveVars, replayVars, recordVars>>

\* subprocess.run raised (adb missing, timeout): nothing was assigned.
InitTouchDeviceBoundsProbeFails ==
    /\ geom_pc = "new"
    /\ SetGeometry([DefaultGeometry EXCEPT !.raised = "SubprocessError"])
    /\ UNCHANGED <<conv, resolveVars, replayVars, recordVars>>

(***************************************************************************)
(* RealTimeOperationRecorder._convert_raw_to_screen                        *)
(***************************************************************************)
\* max(lo, min(v, hi))
Clamp(v, lo, hi) == IF v < lo THEN lo ELSE IF v > hi THEN hi ELSE v

\* Variant: the raw range taken as hi - lo + 1 values wide.
ScaleAxisOffByOne(raw, lo, hi, dim) ==
    Clamp(PyIntScale(Clamp(raw, lo, hi) - lo, hi - lo + 1, dim), 0, dim)

\* Lines 85-90 for one axis, when raw_max # raw_min.
ScaleAxis(raw, lo, hi, dim) ==
    Clamp(PyIntScale(Clamp(raw, lo, hi) - lo, hi - lo, dim), 0, dim)

\* Variant: the except branch returns the raw values unreduced.
ConvertRawToScreenResultNoModulo(rx, ry) ==
    IF raw_max_x = raw_min_x \/ raw_max_y = raw_min_y
    THEN [called |-> TRUE, raw_x |-> rx, raw_y |-> ry,
          screen_x |-> rx, screen_y |-> ry, div_by_zero |-> TRUE]
    ELSE [called |-> TRUE, raw_x |-> rx, raw_y |-> ry,
          screen_x |-> ScaleAxis(rx, raw_min_x, raw_max_x, ScreenWidth),
          screen_y |-> ScaleAxis(ry, raw_min_y, raw_max_y, ScreenHeight),
          div_by_zero |-> FALSE]

\* A zero-width axis raises ZeroDivisionError and both axes take the except
\* branch (lines 94-99).
ConvertRawToScreenResult(rx, ry) ==
    IF raw_max_x = raw_min_x \/ raw_max_y = raw_min_y
    THEN [called |-> TRUE, raw_x |-> rx, raw_y |-> ry,
          screen_x |-> rx % ScreenWidth, screen_y |-> ry % ScreenHeight,
          div_by_zero |-> TRUE]
    ELSE [called |-> TRUE, raw_x |-> rx, raw_y |-> ry,
          screen_x |-> ScaleAxis(rx, raw_min_x, raw_max_x, ScreenWidth),
          screen_y |-> ScaleAxis(ry, raw_min_y, raw_max_y, ScreenHeight),
          div_by_zero |-> FALSE]

NoConv ==
    [called |-> FALSE, raw_x |-> 0, raw_y |-> 0, screen_x |-> 0, screen_y |-> 0,
     div_by_zero |-> FALSE]

ConvertRawToScreen ==
    /\ geom_pc = "ready"
    /\ \E rx \in RawInputs, ry \in RawInputs :
          conv' = ConvertRawToScreenResult(rx, ry)
    /\ geom_pc' = "converted"
    /\ UNCHANGED <<raw_min_x, raw_max_x, raw_min_y, raw_max_y, probe_status>>
    /\ UNCHANGED <<resolveVars, replayVars, recordVars>>

CoordStart ==
    /\ raw_min_x = DefaultRawMin
    /\ raw_max_x = DefaultRawMax
    /\ raw_min_y = DefaultRawMin
    /\ raw_max_y = DefaultRawMax
    /\ geom_pc = "new"
    /\ probe_status = "ok"
    /\ conv = NoConv

(***************************************************************************)
(* JsonToScriptGenerator._generate_step_code and the run_operations it     *)
(* writes (json_script_generator.py 41-123; real_time_operations_script.py *)
(* 139-244 is one generated instance).  An operation is the JSON object    *)
(* the generator reads; a step is the code it emits for it.                *)
(***************************************************************************)
\* op["element"]: null, a value that is not a dict, {}, a dict without
\* "index", or a dict with "index".
IndexedElement(i) == [kind |-> "indexed", index |-> i]
NoElement == [kind |-> "null", index |-> 0]

Texts == {<<"a">>, <<"\\", "n">>, <<"\"", "a">>, <<"\n">>}

\* op["duration"]: absent, or <<seconds>>
NoDuration == <<>>

Op(type, element, px, py, text, duration) ==
    [action_type |-> type, element |-> element, x |-> px, y |-> py,
     text |-> text, duration |-> duration]

\* The operations of the logs a script is generated from: clicks with every
\* shape of element, texts, waits with and without duration, other types.
Operations ==
    {Op("click", [kind |-> k, index |-> 0], 100, 200, <<>>, NoDuration) :
        k \in {"null", "not_dict", "empty", "no_index"}}
    \cup {Op("click", IndexedElement(i), 100, 200, <<>>, NoDuration) : i \in Indexes}
    \cup {Op("Click", IndexedElement(0), 5, 5, <<>>, NoDuration)}
    \cup {Op("input_text", NoElement, 0, 0, t, NoDuration) : t \in Texts}
    \cup {Op(ty, NoElement, 0, 0, <<>>, d) : ty \in {"WAIT", "wait"}, d \in {NoDuration, <<2>>}}
    \cup {Op(ty, NoElement, 0, 0, <<>>, NoDuration) : ty \in {"swipe", "sw\"ipe"}}

\* action_type.lower() and action_type.upper()
LowerType(t) ==
    CASE t = "Click" -> "click"
      [] t = "WAIT" -> "wait"
      [] OTHER -> t
UpperType(t) ==
    CASE t = "click" -> "CLICK"
      [] t = "Click" -> "CLICK"
      [] t = "input_text" -> "INPUT_TEXT"
      [] t = "wait" -> "WAIT"
      [] t = "swipe" -> "SWIPE"
      [] t = "sw\"ipe" -> "SW\"IPE"
      [] OTHER -> t

\* text.replace("\\", "\\\\").replace("\"", "\\\"").replace("\n", "\\n")
RECURSIVE Escape(_)
Escape(text) ==
    IF Len(text) = 0 THEN <<>>
    ELSE (CASE Head(text) = "\\" -> <<"\\", "\\">>
            [] Head(text) = "\"" -> <<"\\", "\"">>
            [] Head(text) = "\n" -> <<"\\", "n">>
            [] OTHER -> <<Head(text)>>) \o Escape(Tail(text))

\* The value of the string literal "<body>" of the generated script.
RECURSIVE PyLiteral(_)
PyLiteral(body) ==
    IF Len(body) = 0 THEN <<>>
    ELSE IF Head(body) = "\\" /\ Len(body) >= 2
         THEN (CASE body[2] = "\\" -> <<"\\">>
                 [] body[2] = "\"" -> <<"\"">>
                 [] body[2] = "n" -> <<"\n">>
                 [] OTHER -> <<"\\", body[2]>>) \o PyLiteral(Tail(Tail(body)))
         ELSE <<Head(body)>> \o PyLiteral(Tail(body))

\* Text written as it is between the quotes of a literal of the script stays
\* inside the literal: no bare quote or line end, no backslash left alone.
RECURSIVE LiteralLoads(_)
LiteralLoads(body) ==
    IF Len(body) = 0 THEN TRUE
    ELSE IF Head(body) = "\\"
         THEN Len(body) >= 2 /\ LiteralLoads(Tail(Tail(body)))
         ELSE Head(body) \notin {"\"", "\n"} /\ LiteralLoads(Tail(body))

Step(code, idx, px, py, text, duration) ==
    [code |-> code, index |-> idx, x |-> px, y |-> py, text |-> text,
     duration |-> duration]

\* Variant: the index is tested for truth, so index 0 counts as no index.
ElementIndexTruthy(element) ==
    IF element.kind = "indexed" /\ element.index # 0 THEN <<element.index>> ELSE NoIndex

\* index = element.get("index") if (isinstance(element, dict) and element) else None
\* followed by `if index is not None`
ElementIndex(element) == IF element.kind = "indexed" THEN <<element.index>> ELSE NoIndex

\* The body of the loop of _generate_step_code for one operation.
GenerateStep(op) ==
    IF LowerType(op.action_type) = "click"
    THEN IF ElementIndex(op.element) # NoIndex
         THEN Step("click_indexed", ElementIndex(op.element)[1], op.x, op.y, <<>>, 0)
         ELSE Step("click_coords", 0, op.x, op.y, <<>>, 0)
    ELSE IF LowerType(op.action_type) = "input_text"
    THEN Step("input_text", 0, 0, 0, PyLiteral(Escape(op.text)), 0)
    ELSE IF UpperType(op.action_type) = "WAIT"
    THEN Step("wait", 0, 0, 0, <<>>,
              \* duration = op.get("duration", 0)
              IF op.duration = NoDuration THEN 0 ELSE op.duration[1])
    ELSE Step("unsupported", 0, 0, 0, <<>>, 0)

GeneratedSteps(ops) == [k \in 1..Len(ops) |-> GenerateStep(ops[k])]

\* The written script is Python that compiles.  The last branch writes
\* logging.warning("⚠️ 不支持的操作类型：{action_type}") with the action type as
\* it is; texts of input_text are escaped, and the step_desc of a recorded
\* click or WAIT holds digits and fixed words only.
ScriptLoads(ops) ==
    LET \* The characters of an action type that reaches the last branch.
        TypeChars(t) ==
            CASE t = "swipe" -> <<"s", "w", "i", "p", "e">>
              [] t = "sw\"ipe" -> <<"s", "w", "\"", "i", "p", "e">>
              [] OTHER -> <<>>
    IN  \A k \in 1..Len(ops) :
            GenerateStep(ops[k]).code = "unsupported" =>
                LiteralLoads(TypeChars(ops[k].action_type))

\* What the device layer answers during one step: the number of elements
\* get_state returns, and which call fails if any (the first or the second
\* get_state of the step, or execute_adb_action).  Only an indexed click
\* reads the length of its snapshot and can reach a second get_state.
Faults == {"none", "get_state_1", "get_state_2", "actuation"}
BlindDevices == [snaplen : {0, 1}, fault : Faults \ {"get_state_2"}]

\* _get_stable_ui_elements raising (real_time_operations_script.py 44-54)
StateFails == Raised("RuntimeError", <<>>, <<>>, "none")

\* self._click_by_index(...) in a step
StepClickByIndex(step, dev) ==
    IF dev.fault = "get_state_1" THEN StateFails
    ELSE ClickByIndexResult([j \in 1..dev.snaplen |-> AnyElement], step.index, dev.fault # "actuation")

\* self._click_by_coords(...) in a step; nth tells which get_state of the step
\* it makes.
StepClickByCoords(step, dev, nth) ==
    IF dev.fault = nth THEN StateFails
    ELSE Execute(CoordCmd("click", step.x, step.y), dev.fault # "actuation", <<>>, "coords")

\* Variant: the try statement without its except clause.
StepClickIndexedNoFallback(step, dev) == StepClickByIndex(step, dev)

\* Variant: the handler catches every exception.
StepClickIndexedAnyError(step, dev) ==
    LET first == StepClickByIndex(step, dev)
    IN  IF first.raised # "none"
        THEN LET second == StepClickByCoords(step, dev, "get_state_2")
             IN  [second EXCEPT !.warnings = <<"index_invalid">> \o @,
                                !.cmds = first.cmds \o @]
        ELSE first

\* try: self._click_by_index(...)
\* except IndexError: logging.warning(...); self._click_by_coords(...)
StepClickIndexed(step, dev) ==
    LET first == StepClickByIndex(step, dev)
    IN  IF first.raised = "IndexError"
        THEN LET second == StepClickByCoords(step, dev, "get_state_2")
             IN  [second EXCEPT !.warnings = <<"index_invalid">> \o @]
        ELSE first

\* self._input_text(...) (real_time_operations_script.py 113-137)
StepInputText(step, dev) ==
    IF dev.fault = "get_state_1" THEN StateFails
    ELSE Execute([kind |-> "input_text", by |-> "clear_text", index |-> 0, x |-> 0, y |-> 0,
                  text |-> step.text], dev.fault # "actuation", <<>>, "none")

\* logging.info(...); time.sleep(duration)
StepWait(step) == Returned(<<>>, <<>>, "none")

\* logging.warning("不支持的操作类型") is all the generated step does
StepUnsupported(step) == Returned(<<>>, <<"unsupported">>, "none")

\* What one step left behind.  The helpers' settle delay after a command
\* (time.sleep(1.5), time.sleep(1)) is inside the step; slept is the
\* time.sleep(duration) of a WAIT step.
StepRecord(step, dev, out) ==
    [step |-> step, dev |-> dev, out |-> out,
     slept |-> IF step.code = "wait" THEN step.duration ELSE 0]

ReplayIdle ==
    /\ rp_ops = <<>>
    /\ rp_status = "idle"
    /\ rp_pc = 0
    /\ rp_trace = <<>>
    /\ tw_trace = <<>>

\* A script has been generated from a recorded sequence and not yet run.
ReplayStart ==
    /\ rp_ops \in SeqsUpTo(Operations, MaxOps)
    /\ rp_status = "new"
    /\ rp_pc = 0
    /\ rp_trace = <<>>
    /\ tw_trace = <<>>

\* The generated file is not valid Python: loading it raises SyntaxError and
\* not one step of it runs.
LoadScriptSyntaxError ==
    /\ rp_status = "new"
    /\ ~ ScriptLoads(rp_ops)
    /\ rp_status' = "syntax_error"
    /\ UNCHANGED <<rp_ops, rp_pc, rp_trace, tw_trace, coordVars, resolveVars, recordVars>>

\* run_operations entered with an env that is an AsyncAndroidEnv.
RunOperationsEnter ==
    /\ rp_status = "new"
    /\ ScriptLoads(rp_ops)
    /\ rp_status' = IF Len(rp_ops) = 0 THEN "done" ELSE "running"
    /\ UNCHANGED <<rp_ops, rp_pc, rp_trace, tw_trace, coordVars, resolveVars, recordVars>>

\* run_operations entered with anything else: RuntimeError before any step.
RunOperationsBadEnv ==
    /\ rp_status = "new"
    /\ ScriptLoads(rp_ops)
    /\ rp_status' = "failed"
    /\ UNCHANGED <<rp_ops, rp_pc, rp_trace, tw_trace, coordVars, resolveVars, recordVars>>

\* Variant: the steps are emitted from the last operation to the first.
NextStepReversed == GeneratedSteps(rp_ops)[Len(rp_ops) - rp_pc]

\* The steps follow the order of the operations: enumerate(self.operations, 1)
NextStep == GeneratedSteps(rp_ops)[rp_pc + 1]

\* Variant: a step's exception is swallowed and the next step runs.
StepDoneContinues(dev, out) ==
    /\ rp_trace' = Append(rp_trace, StepRecord(NextStep, dev, out))
    /\ rp_pc' = rp_pc + 1
    /\ rp_status' = IF rp_pc + 1 = Len(rp_ops) THEN "done" ELSE "running"
    /\ UNCHANGED <<rp_ops, tw_trace, coordVars, resolveVars, recordVars>>

\* One step of run_operations ran to its end or raised; an exception leaves
\* run_operations, the last step is followed by the closing log line.
StepDone(dev, out) ==
    /\ rp_trace' = Append(rp_trace, StepRecord(NextStep, dev, out))
    /\ rp_pc' = rp_pc + 1
    /\ rp_status' = IF out.raised # "none" THEN "failed"
                    ELSE IF rp_pc + 1 = Len(rp_ops) THEN "done"
                    ELSE "running"
    /\ UNCHANGED <<rp_ops, tw_trace, coordVars, resolveVars, recordVars>>

ReplayClickIndexed ==
    /\ rp_status = "running"
    /\ NextStep.code = "click_indexed"
    /\ \E dev \in [snaplen : 0..MaxSnapLen, fault : Faults] : StepDone(dev, StepClickIndexed(NextStep, dev))

ReplayClickCoords ==
    /\ rp_status = "running"
    /\ NextStep.code = "click_coords"
    /\ \E dev \in BlindDevices : StepDone(dev, StepClickByCoords(NextStep, dev, "get_state_1"))

ReplayInputText ==
    /\ rp_status = "running"
    /\ NextStep.code = "input_text"
    /\ \E dev \in BlindDevices : StepDone(dev, StepInputText(NextStep, dev))

ReplayWait ==
    /\ rp_status = "running"
    /\ NextStep.code = "wait"
    /\ StepDone([snaplen |-> 0, fault |-> "none"], StepWait(NextStep))

ReplayUnsupported ==
    /\ rp_status = "running"
    /\ NextStep.code = "unsupported"
    /\ StepDone([snaplen |-> 0, fault |-> "none"], StepUnsupported(NextStep))

\* Variant: the run keeps the elements of its last snapshot for the next
\* indexed click.
RunStepCached(step, dev) ==
    CASE step.code = "click_indexed" ->
             StepClickIndexed(step, [dev EXCEPT !.snaplen = MaxSnapLen])
      [] step.code = "click_coords" -> StepClickByCoords(step, dev, "get_state_1")
      [] step.code = "input_text" -> StepInputText(step, dev)
      [] step.code = "wait" -> StepWait(step)
      [] OTHER -> StepUnsupported(step)

\* The code of one step of run_operations, by the kind of step the generator
\* wrote.
RunStep(step, dev) ==
    CASE step.code = "click_indexed" -> StepClickIndexed(step, dev)
      [] step.code = "click_coords" -> StepClickByCoords(step, dev, "get_state_1")
      [] step.code = "input_text" -> StepInputText(step, dev)
      [] step.code = "wait" -> StepWait(step)
      [] OTHER -> StepUnsupported(step)

\* run_operations of the same script called again, on an environment whose
\* snapshots and device answers equal, step by step, those of the first
\* run; it stops where an exception leaves it.
TwinRun ==
    /\ rp_status \in {"done", "failed"}
    /\ rp_trace # <<>>
    /\ tw_trace = <<>>
    /\ LET steps == GeneratedSteps(rp_ops)
           all == [k \in 1..Len(rp_trace) |->
                      StepRecord(steps[k], rp_trace[k].dev,
                                 RunStep(steps[k], rp_trace[k].dev))]
           stops == {k \in 1..Len(all) : all[k].out.raised # "none"}
           last == IF stops = {} THEN Len(all)
                   ELSE CHOOSE k \in stops : \A j \in stops : k <= j
       IN  tw_trace' = SubSeq(all, 1, last)
    /\ UNCHANGED <<rp_ops, rp_status, rp_pc, rp_trace, coordVars, resolveVars, recordVars>>

(***************************************************************************)
(* RealTimeOperationRecorder recording operations and saving them          *)
(* (auto_init_workflow.py 361-396), and JsonToScriptGenerator reading the  *)
(* file back (json_script_generator.py 24-39).  Times are in milliseconds; *)
(* a duration is in hundredths of a second, what round(wait_duration, 2)   *)
(* keeps.                                                                  *)
(***************************************************************************)
WaitThreshold == 1000

\* time since the last operation when one is recorded (none is a tie of
\* round)
Gaps == {WaitThreshold, 1004}

\* text.strip()
RECURSIVE StripLeft(_)
StripLeft(text) ==
    IF Len(text) > 0 /\ Head(text) \in {" ", "\n"} THEN StripLeft(Tail(text)) ELSE text
RECURSIVE StripRight(_)
StripRight(text) ==
    IF Len(text) > 0 /\ text[Len(text)] \in {" ", "\n"}
    THEN StripRight(SubSeq(text, 1, Len(text) - 1))
    ELSE text
Strip(text) == StripRight(StripLeft(text))

\* self.operations after _record_operation(**kwargs): a WAIT goes first when
\* more than a second has passed and the list is not empty
\* Variant: a WAIT also after exactly a second.
RecordedWaitAtThreshold(ops, gap, op) ==
    IF gap >= WaitThreshold /\ Len(ops) > 0
    THEN ops \o <<Op("WAIT", NoElement, 0, 0, <<>>, <<(gap + 5) \div 10>>), op>>
    ELSE Append(ops, op)

Recorded(ops, gap, op) ==
    IF gap > WaitThreshold /\ Len(ops) > 0
    THEN ops \o <<Op("WAIT", NoElement, 0, 0, <<>>, <<(gap + 5) \div 10>>), op>>
    ELSE Append(ops, op)

\* the "timestamp" fields after the same call: the WAIT carries
\* self.last_operation_time, the operation current_time
Stamped(stamps, gap, waited) ==
    LET last == IF stamps = <<>> THEN 0 ELSE stamps[Len(stamps)]
    IN  IF waited
        THEN stamps \o <<last, last + gap>>
        ELSE Append(stamps, last + gap)

\* Variant: the quote is written as it is.
JsonEscapeBareQuote(text) ==
    [k \in 1..Len(text) |-> text[k]]

\* A str as json.dump(..., ensure_ascii=False) writes it between quotes.
RECURSIVE JsonEscape(_)
JsonEscape(text) ==
    IF Len(text) = 0 THEN <<>>
    ELSE (CASE Head(text) = "\"" -> <<"\\", "\"">>
            [] Head(text) = "\\" -> <<"\\", "\\">>
            [] Head(text) = "\n" -> <<"\\", "n">>
            [] OTHER -> <<Head(text)>>) \o JsonEscape(Tail(text))

\* JSON values of the file: a missing key, null, a number, a string as it
\* stands between its quotes, the object of an element with its index
JsonValue(t, n, body) == [t |-> t, n |-> n, body |-> body]

\* One operation as json.dump writes it; a key is in the object when the
\* recorder passed it.
DumpOp(op) ==
    LET click == op.action_type = "click"
    IN  [is_object |-> TRUE, has_action_type |-> TRUE,
         action_type |-> op.action_type,
         x |-> IF click THEN JsonValue("num", op.x, <<>>) ELSE JsonValue("absent", 0, <<>>),
         y |-> IF click THEN JsonValue("num", op.y, <<>>) ELSE JsonValue("absent", 0, <<>>),
         element |-> IF ~ click THEN JsonValue("absent", 0, <<>>)
                     ELSE IF op.element.kind = "indexed"
                     THEN JsonValue("obj", op.element.index, <<>>)
                     ELSE JsonValue("null", 0, <<>>),
         text |-> IF op.action_type = "input_text"
                  THEN JsonValue("str", 0, JsonEscape(op.text))
                  ELSE JsonValue("absent", 0, <<>>),
         duration |-> IF op.duration = NoDuration THEN JsonValue("absent", 0, <<>>)
                      ELSE JsonValue("num", op.duration[1], <<>>)]

\* The file at a path: whether it is there, what its JSON root is ("list",
\* "object", or "garbage" for text that is not JSON), the elements of a list.
NoFile == [exists |-> FALSE, root |-> "none", doc |-> <<>>]

\* _save_to_json
SaveToJson(ops) ==
    [exists |-> TRUE, root |-> "list", doc |-> [k \in 1..Len(ops) |-> DumpOp(ops[k])]]

\* json.load accepts what stands between the quotes of a string, and the
\* str it returns for it
RECURSIVE JsonStringParses(_)
JsonStringParses(body) ==
    IF Len(body) = 0 THEN TRUE
    ELSE IF Head(body) = "\\"
         THEN /\ Len(body) >= 2
              /\ body[2] \in {"\\", "\"", "n"}
              /\ JsonStringParses(Tail(Tail(body)))
         ELSE Head(body) \notin {"\"", "\n"} /\ JsonStringParses(Tail(body))
RECURSIVE JsonUnescape(_)
JsonUnescape(body) ==
    IF Len(body) = 0 THEN <<>>
    ELSE IF Head(body) = "\\" /\ Len(body) >= 2
         THEN <<IF body[2] = "n" THEN "\n" ELSE body[2]>> \o JsonUnescape(Tail(Tail(body)))
         ELSE <<Head(body)>> \o JsonUnescape(Tail(body))

(***************************************************************************)
(* RealTimeOperationRecorder._listen_touch_events and what it calls        *)
(* (auto_init_workflow.py 121-354): one getevent line at a time.           *)
(***************************************************************************)
DeviceIds == {"event1", "event2"}

\* self._input_timeout, in milliseconds
InputTimeout == 1000


\* int(value_str, 16) when every character is a hex digit, else
\* int(value_str); 0 where int raises ValueError.
ParseValue(chars) ==
    LET hex == <<"0", "1", "2", "3", "4", "5", "6", "7", "8", "9",
                 "a", "b", "c", "d", "e", "f", "A", "B", "C", "D", "E", "F">>
        Digit(c) == LET i == CHOOSE j \in 1..22 : hex[j] = c
                    IN  IF i <= 16 THEN i - 1 ELSE i - 7
        IsHex(c) == \E j \in 1..22 : hex[j] = c
        IsDec(c) == \E j \in 1..10 : hex[j] = c
        val[k \in 0..Len(chars)] ==
            IF k = 0 THEN 0 ELSE val[k - 1] * 16 + Digit(chars[k])
        dec[k \in 1..Len(chars)] ==
            IF k = 1 THEN 0 ELSE dec[k - 1] * 10 + Digit(chars[k])
    IN  IF chars = <<>> THEN 0
        ELSE IF \A k \in 1..Len(chars) : IsHex(chars[k]) THEN val[Len(chars)]
        ELSE IF /\ Len(chars) > 1
                /\ chars[1] \in {"-", "+"}
                /\ \A k \in 2..Len(chars) : IsDec(chars[k])
             THEN (IF chars[1] = "-" THEN 0 - dec[Len(chars)] ELSE dec[Len(chars)])
        ELSE 0

\* The lines of `getevent -l` the devices send, each with the device of
\* parts[0], the number of parts, and parts[1], parts[2], parts[3].  event1:
\* both axes with a value that parses, an X whose value does not,
\* SYN_REPORT, keys going down and up, and lines of other shapes; event2: an
\* X and a key.
EventLines ==
    LET Line(dev, parts, type, code, value) ==
            [dev |-> dev, parts |-> parts, type |-> type, code |-> code, value |-> value]
        down == <<"D", "O", "W", "N">>
    IN  {Line("event1", 4, "EV_ABS", "ABS_MT_POSITION_X", v) :
            v \in {<<"3", "e", "8", "0">>, <<"z", "z">>}}
        \cup {Line("event1", 4, "EV_ABS", "ABS_MT_POSITION_Y", <<"3", "e", "8", "0">>),
              Line("event1", 4, "EV_SYN", "SYN_REPORT", <<"0">>),
              Line("event1", 4, "EV_KEY", "KEY_A", <<"U", "P">>)}
        \cup {Line("event1", 4, "EV_KEY", k, down) :
                k \in {"KEY_A", "KEY_SPACE", "KEY_ENTER", "KEY_BACKSPACE",
                       "KEY_LEFTSHIFT", "KEY_F1"}}
        \cup {Line("event2", 4, "EV_ABS", "ABS_MT_POSITION_X", <<"1", "0">>),
              Line("event2", 4, "EV_KEY", "KEY_A", down)}
        \cup {Line("event1", 4, "EV_ABS", "ABS_MT_TRACKING_ID", <<"z", "z">>),
              Line("event1", 4, "EV_MSC", "MSC_SCAN", <<"1">>),
              Line("event1", 3, "EV_ABS", "ABS_MT_POSITION_X", <<>>)}

\* Variant: a key event counts as a key going down whatever its value.
ParseTouchEventAnyState(line) ==
    LET none == [kind |-> "none", dev |-> line.dev, value |-> 0, key |-> "", state |-> ""]
    IN  IF line.parts < 4 THEN none
        ELSE IF /\ line.type \in {"0003", "EV_ABS"}
                /\ line.code \in {"0035", "ABS_MT_POSITION_X", "ABS_X"}
             THEN [none EXCEPT !.kind = "X", !.value = ParseValue(line.value)]
        ELSE IF /\ line.type \in {"0003", "EV_ABS"}
                /\ line.code \in {"0036", "ABS_MT_POSITION_Y", "ABS_Y"}
             THEN [none EXCEPT !.kind = "Y", !.value = ParseValue(line.value)]
        ELSE IF line.type = "EV_SYN" /\ line.code = "SYN_REPORT"
             THEN [none EXCEPT !.kind = "SYNC"]
        ELSE IF line.type = "EV_KEY"
             THEN [none EXCEPT !.kind = "KEY", !.key = line.code,
                               !.state = "DOWN"]
        ELSE none

\* _parse_touch_event(line): kind "none" stands for None
ParseTouchEvent(line) ==
    LET none == [kind |-> "none", dev |-> line.dev, value |-> 0, key |-> "", state |-> ""]
    IN  IF line.parts < 4 THEN none
        ELSE IF /\ line.type \in {"0003", "EV_ABS"}
                /\ line.code \in {"0035", "ABS_MT_POSITION_X", "ABS_X"}
             THEN [none EXCEPT !.kind = "X", !.value = ParseValue(line.value)]
        ELSE IF /\ line.type \in {"0003", "EV_ABS"}
                /\ line.code \in {"0036", "ABS_MT_POSITION_Y", "ABS_Y"}
             THEN [none EXCEPT !.kind = "Y", !.value = ParseValue(line.value)]
        ELSE IF line.type = "EV_SYN" /\ line.code = "SYN_REPORT"
             THEN [none EXCEPT !.kind = "SYNC"]
        ELSE IF line.type = "EV_KEY"
             THEN [none EXCEPT !.kind = "KEY", !.key = line.code,
                               !.state = IF line.value = <<"D", "O", "W", "N">>
                                         THEN "DOWN" ELSE "UP"]
        ELSE none

\* self._key_mapping.get(key_code, ""), for the keys of EventLines
KeyMapping(key) ==
    CASE key = "KEY_A" -> <<"a">>
      [] key = "KEY_SPACE" -> <<" ">>
      [] key = "KEY_ENTER" -> <<"\n">>
      [] OTHER -> <<>>

\* What env.get_state returns: one element away from the touch, or an
\* element without a box before one that covers the screen.
UiSnapshots ==
    LET Box(has, x0, x1, y0, y1) ==
            [has_bbox |-> has, x_min |-> x0, x_max |-> x1, y_min |-> y0, y_max |-> y1]
    IN  {<<Box(TRUE, 0, 10, 0, 10)>>,
         <<Box(FALSE, 0, 0, 0, 0), Box(TRUE, 0, ScreenWidth, 0, ScreenHeight)>>}

\* _find_element_by_coords(x, y) on the cached list
FindElementByCoords(elems, x, y) ==
    LET hits == {k \in 1..Len(elems) :
                    /\ elems[k].has_bbox
                    /\ elems[k].x_min - 20 <= x /\ x <= elems[k].x_max + 20
                    /\ elems[k].y_min - 20 <= y /\ y <= elems[k].y_max + 20}
    IN  IF hits = {} THEN NoElement
        ELSE IndexedElement((CHOOSE k \in hits : \A j \in hits : k <= j) - 1)

\* Nothing pending: no coordinate, no text, no thread.
\* No _record_operation call of the listener is under way.
NoJob == [pending |-> FALSE, kind |-> "", dev |-> "", now |-> 0,
          op |-> Op("", NoElement, 0, 0, <<>>, NoDuration)]

ListenerOff ==
    /\ rec_adb = "off"
    /\ rec_acc = [d \in DeviceIds |-> [X |-> <<>>, Y |-> <<>>]]
    /\ rec_kbd = [d \in DeviceIds |-> <<>>]
    /\ rec_threads = {}
    /\ rec_ui = [elems |-> <<>>, fresh |-> FALSE]
    /\ rec_lines = 0
    /\ rec_line = [dev |-> "", parts |-> 0, type |-> "", code |-> "", value |-> <<>>]
    /\ rec_job = NoJob
    /\ rec_keys = {}
    /\ rec_typed = 0
    /\ rec_main = [pc |-> "none", size |-> 0, done |-> {}, ret |-> {}]

\* __init__ has run
RecorderIdle ==
    /\ rec_pc = "idle"
    /\ rec_ops = <<>>
    /\ rec_stamps = <<>>
    /\ json_file = NoFile
    /\ ListenerOff

\* _record_operation(**kwargs), which ends with _save_to_json
RecordOperation(gap, op) ==
    /\ Len(Recorded(rec_ops, gap, op)) <= MaxRecorded
    /\ rec_ops' = Recorded(rec_ops, gap, op)
    /\ rec_stamps' = Stamped(rec_stamps, gap, Len(rec_ops') = Len(rec_ops) + 2)
    /\ json_file' = SaveToJson(rec_ops')

\* A touch SYNC event: _record_operation(action_type=CLICK, ...).
RecordClick ==
    /\ rec_pc = "recording"
    /\ Len(rec_ops) < MaxRecorded
    /\ \E gap \in Gaps,
          op \in {Op("click", e, 100, 200, <<>>, NoDuration) :
                     e \in {NoElement} \cup {IndexedElement(i) : i \in 0..MaxSnapLen}}
                 \cup {Op("click", NoElement, 5, 5, <<>>, NoDuration)} :
           RecordOperation(gap, op)
    /\ UNCHANGED <<rec_pc, listenVars, coordVars, resolveVars, replayVars>>

\* record_text_input(text) called with any text: nothing for a blank text,
\* else the stripped text is recorded and saved.
RecordTextInput ==
    /\ rec_pc = "recording"
    /\ Len(rec_ops) < MaxRecorded
    /\ \E gap \in Gaps, text \in Texts \cup {<<" ", "a", "\n">>} :
           IF Strip(text) = <<>>
           THEN UNCHANGED <<rec_ops, rec_stamps, json_file>>
           ELSE RecordOperation(gap, Op("input_text", NoElement, 0, 0, Strip(text), NoDuration))
    /\ UNCHANGED <<rec_pc, listenVars, coordVars, resolveVars, replayVars>>

\* start_recording, the first time or again after stop_recording: the lists
\* are emptied, the file is not touched, the listener thread starts and its
\* first _check_adb_connection passes or fails.
StartRecording ==
    /\ rec_pc \in {"idle", "stopped"}
    /\ ~ rec_job.pending
    /\ rec_pc' = "recording"
    /\ rec_ops' = <<>>
    /\ rec_stamps' = <<>>
    /\ rec_acc' = [d \in DeviceIds |-> [X |-> <<>>, Y |-> <<>>]]
    /\ rec_kbd' = [d \in DeviceIds |-> <<>>]
    /\ rec_keys' = {}
    /\ rec_typed' = 0
    /\ \E ok \in BOOLEAN, snap \in UiSnapshots :
           rec_ui' = [elems |-> IF ok THEN snap ELSE rec_ui.elems, fresh |-> ok]
    /\ rec_adb' \in {"listening", "lost"}
    /\ UNCHANGED <<json_file, rec_threads, rec_lines, rec_line, rec_job, rec_main>>
    /\ UNCHANGED <<coordVars, resolveVars, replayVars>>

\* The listener loop is running and reads one more line; a listener that
\* stop_recording gave up joining is still in readline, handles the line it
\* gets and leaves the loop at the next test of is_recording.
Listening(line) ==
    /\ \/ rec_pc = "recording" /\ rec_adb = "listening"
       \/ rec_adb = "abandoned"
    /\ ~ rec_job.pending
    /\ rec_lines < MaxEvents
    /\ rec_lines' = rec_lines + 1
    /\ rec_line' = line
    /\ rec_adb' = IF rec_adb = "abandoned" THEN "off" ELSE rec_adb

\* _parse_touch_event returned None: continue
ListenSkip ==
    /\ \E line \in EventLines :
           /\ ParseTouchEvent(line).kind = "none"
           /\ Listening(line)
    /\ UNCHANGED <<rec_pc, rec_ops, rec_stamps, json_file, rec_acc, rec_kbd,
                   rec_threads, rec_ui, rec_job, rec_keys, rec_typed, rec_main>>
    /\ UNCHANGED <<coordVars, resolveVars, replayVars>>

\* An X or a Y event: the value goes to the device's entry of _coord_cache
ListenAxis ==
    /\ \E line \in EventLines :
           LET ev == ParseTouchEvent(line)
           IN  /\ ev.kind \in {"X", "Y"}
               /\ Listening(line)
               /\ rec_acc' = [rec_acc EXCEPT ![ev.dev] =
                                 IF ev.kind = "X" THEN [@ EXCEPT !.X = <<ev.value>>]
                                 ELSE [@ EXCEPT !.Y = <<ev.value>>]]
    /\ UNCHANGED <<rec_pc, rec_ops, rec_stamps, json_file, rec_kbd,
                   rec_threads, rec_ui, rec_job, rec_keys, rec_typed, rec_main>>
    /\ UNCHANGED <<coordVars, resolveVars, replayVars>>

\* A SYNC event: with both X and Y the touch is converted, the snapshot is
\* captured again (on an exception the cached list stays), the element is
\* looked up, the click recorded and the entry reset.
ListenSync ==
    /\ \E line \in EventLines :
           LET ev == ParseTouchEvent(line)
               acc == rec_acc[ev.dev]
           IN  /\ ev.kind = "SYNC"
               /\ Listening(line)
               /\ IF acc.X # <<>> /\ acc.Y # <<>>
                  THEN \E gap \in Gaps, ok \in BOOLEAN, snap \in UiSnapshots :
                          LET c == ConvertRawToScreenResult(acc.X[1], acc.Y[1])
                              elems == IF ok THEN snap ELSE rec_ui.elems
                              found == FindElementByCoords(elems, c.screen_x, c.screen_y)
                          IN  /\ rec_ui' = [elems |-> elems, fresh |-> ok]
                              /\ RecordOperation(gap, Op("click", found, c.screen_x,
                                                         c.screen_y, <<>>, NoDuration))
                              /\ rec_acc' = [rec_acc EXCEPT ![ev.dev] =
                                                [X |-> <<>>, Y |-> <<>>]]
                              /\ conv' = c
                              /\ geom_pc' = "converted"
                  ELSE UNCHANGED <<rec_ops, rec_stamps, json_file, rec_acc, rec_ui,
                                   conv, geom_pc>>
    /\ UNCHANGED <<rec_pc, rec_kbd, rec_threads, rec_job, rec_keys, rec_typed, rec_main>>
    /\ UNCHANGED <<raw_min_x, raw_max_x, raw_min_y, raw_max_y, probe_status>>
    /\ UNCHANGED <<resolveVars, replayVars>>

\* A KEY event: _process_keyboard_event(device_id, (key_code, key_state))
ListenKey ==
    /\ \E line \in EventLines :
           LET ev == ParseTouchEvent(line)
               typed == rec_kbd[ev.dev] \o KeyMapping(ev.key)
           IN  /\ ev.kind = "KEY"
               /\ Listening(line)
               /\ rec_keys' = rec_keys \cup {ev.dev}
               /\ rec_typed' = IF ev.key # "KEY_LEFTSHIFT" /\ ev.state = "DOWN"
                                  /\ ev.key # "KEY_BACKSPACE"
                               THEN rec_typed + Len(KeyMapping(ev.key))
                               ELSE rec_typed
               /\ IF ev.key = "KEY_LEFTSHIFT" \/ ev.state # "DOWN"
                  THEN UNCHANGED <<rec_ops, rec_stamps, json_file, rec_kbd, rec_threads>>
                  ELSE IF ev.key = "KEY_BACKSPACE"
                  THEN /\ rec_kbd' = [rec_kbd EXCEPT ![ev.dev] =
                                         SubSeq(@, 1, Len(@) - 1)]
                       /\ UNCHANGED <<rec_ops, rec_stamps, json_file, rec_threads>>
                  ELSE IF ev.key = "KEY_ENTER" /\ Strip(typed) # <<>>
                  THEN /\ IF rec_pc = "recording"
                          THEN \E gap \in Gaps :
                                  RecordOperation(gap, Op("input_text", NoElement, 0, 0,
                                                          Strip(typed), NoDuration))
                          ELSE UNCHANGED <<rec_ops, rec_stamps, json_file>>
                       /\ rec_kbd' = [rec_kbd EXCEPT ![ev.dev] = <<>>]
                       /\ UNCHANGED rec_threads
                  ELSE /\ rec_kbd' = [rec_kbd EXCEPT ![ev.dev] = typed]
                       /\ rec_threads' = rec_threads \cup {ev.dev}
                       /\ UNCHANGED <<rec_ops, rec_stamps, json_file>>
    /\ UNCHANGED <<rec_pc, rec_acc, rec_ui, rec_job, rec_main>>
    /\ UNCHANGED <<coordVars, resolveVars, replayVars>>

\* A timeout_callback thread runs: it records and clears the device's text
\* if that is not blank and the last key event is more than _input_timeout
\* old.  delay is the time between the key event and the run of the thread:
\* a started thread is scheduled within milliseconds.
TimeoutCallback ==
    /\ \E d \in rec_threads, delay \in {0, 20} :
           /\ rec_threads' = rec_threads \ {d}
           /\ IF Strip(rec_kbd[d]) # <<>> /\ delay > InputTimeout
              THEN /\ rec_kbd' = [rec_kbd EXCEPT ![d] = <<>>]
                   /\ IF rec_pc = "recording"
                      THEN \E gap \in Gaps :
                              RecordOperation(gap, Op("input_text", NoElement, 0, 0,
                                                      Strip(rec_kbd[d]), NoDuration))
                      ELSE UNCHANGED <<rec_ops, rec_stamps, json_file>>
              ELSE UNCHANGED <<rec_ops, rec_stamps, json_file, rec_kbd>>
    /\ UNCHANGED <<rec_pc, rec_adb, rec_acc, rec_ui, rec_lines, rec_line, rec_job, rec_keys,
                   rec_typed, rec_main>>
    /\ UNCHANGED <<coordVars, resolveVars, replayVars>>

\* The listener finds the adb connection gone (_check_adb_connection fails
\* after 10 s without a line, or the getevent process has ended): it sets
\* _adb_available = False, leaves its loop, terminates the process and logs.
TransportLost ==
    /\ rec_pc = "recording"
    /\ rec_adb = "listening"
    /\ ~ rec_job.pending
    /\ rec_adb' = "lost"
    /\ UNCHANGED <<rec_pc, rec_ops, rec_stamps, json_file, rec_acc, rec_kbd, rec_threads,
                   rec_ui, rec_lines, rec_line, rec_job, rec_keys, rec_typed,
                   rec_main>>
    /\ UNCHANGED <<coordVars, resolveVars, replayVars>>

\* stop_recording with no step of another thread between its statements:
\* record_text_input for every device whose cached text is not blank (in the
\* order of the dict, whichever it is; the second follows the first at
\* once), then is_recording = False.  The cache keeps its texts.
StopRecording ==
    /\ rec_pc = "recording"
    /\ rec_main.pc = "none"
    /\ ~ rec_job.pending
    /\ rec_pc' = "stopped"
    /\ \E gap \in Gaps, first \in DeviceIds :
           LET second == CHOOSE d \in DeviceIds : d # first
               Flush(ops, g, d) ==
                   IF Strip(rec_kbd[d]) = <<>> THEN ops
                   ELSE Recorded(ops, g, Op("input_text", NoElement, 0, 0,
                                            Strip(rec_kbd[d]), NoDuration))
               FlushStamps(stamps, ops, g, d) ==
                   IF Strip(rec_kbd[d]) = <<>> THEN stamps
                   ELSE Stamped(stamps, g, Len(Flush(ops, g, d)) = Len(ops) + 2)
               gap2 == IF Strip(rec_kbd[first]) = <<>> THEN gap ELSE 0
               ops1 == Flush(rec_ops, gap, first)
               ops2 == Flush(ops1, gap2, second)
           IN  /\ Len(ops2) <= MaxRecorded
               /\ rec_ops' = ops2
               /\ rec_stamps' = FlushStamps(FlushStamps(rec_stamps, rec_ops, gap, first),
                                            ops1, gap2, second)
               /\ json_file' = IF ops2 = rec_ops THEN json_file ELSE SaveToJson(ops2)
    /\ UNCHANGED <<listenVars, coordVars, resolveVars, replayVars>>

\* stop_recording, one turn of `for device_id, cache in
\* self._keyboard_cache.items()` (lines 448-458): the first turn follows the
\* test of is_recording and makes the iterator; every turn takes the next
\* entry, provided the dict still has the size it had when the iterator was
\* made, and calls record_text_input for its text if that is not blank.  A
\* record_text_input that follows one of the same loop reads the same time.
StopLoop ==
    /\ rec_pc = "recording"
    /\ rec_main.pc \in {"none", "loop"}
    /\ rec_main.pc = "loop" => rec_main.size = Cardinality(rec_keys)
    /\ LET done == IF rec_main.pc = "none" THEN {} ELSE rec_main.done
           last == IF rec_stamps = <<>> THEN 0 ELSE rec_stamps[Len(rec_stamps)]
       IN  \E d \in rec_keys \ done :
              /\ rec_main' = [rec_main EXCEPT !.pc = "loop",
                                              !.size = Cardinality(rec_keys),
                                              !.done = done \cup {d}]
              /\ IF Strip(rec_kbd[d]) = <<>>
                 THEN UNCHANGED <<rec_ops, rec_stamps, json_file>>
                 ELSE \E gap \in IF \E e \in done : Strip(rec_kbd[e]) # <<>> THEN {0}
                                 ELSE Gaps :
                         /\ rec_job.pending => last + gap >= rec_job.now
                         /\ RecordOperation(gap, Op("input_text", NoElement, 0, 0,
                                                    Strip(rec_kbd[d]), NoDuration))
    /\ UNCHANGED <<rec_pc, rec_adb, rec_acc, rec_kbd, rec_threads, rec_ui, rec_lines,
                   rec_line, rec_job, rec_keys, rec_typed>>
    /\ UNCHANGED <<coordVars, resolveVars, replayVars>>

\* The iterator of that loop is asked for an entry after the listener has
\* put a new device into _keyboard_cache (line 214): "RuntimeError:
\* dictionary changed size during iteration" leaves stop_recording, with
\* is_recording still True.
StopRaise ==
    /\ rec_pc = "recording"
    /\ rec_main.pc = "loop"
    /\ rec_main.size # Cardinality(rec_keys)
    /\ rec_main' = [rec_main EXCEPT !.pc = "raised"]
    /\ UNCHANGED <<rec_pc, rec_ops, rec_stamps, json_file, rec_adb, rec_acc, rec_kbd,
                   rec_threads, rec_ui, rec_lines, rec_line, rec_job, rec_keys, rec_typed>>
    /\ UNCHANGED <<coordVars, resolveVars, replayVars>>

\* The loop is over (the iterator has no entry left) and the rest of
\* stop_recording runs (lines 460-462): is_recording = False and
\* event_thread.join(timeout=2.0), which returns when the listener has left
\* its loop or when two seconds are over; a listener that is in readline or
\* in a handler all that time goes on running after stop_recording returned.
StopJoin ==
    /\ rec_pc = "recording"
    /\ \/ rec_main.pc = "none" /\ rec_keys = {}
       \/ /\ rec_main.pc = "loop"
          /\ rec_main.size = Cardinality(rec_keys)
          /\ rec_main.done = rec_keys
    /\ rec_main' = [rec_main EXCEPT !.pc = "none", !.size = 0, !.done = {}]
    /\ rec_pc' = "stopped"
    /\ rec_adb' \in IF rec_adb # "listening" THEN {rec_adb}
                   ELSE IF rec_job.pending THEN {"abandoned"}
                   ELSE {"off", "abandoned"}
    /\ UNCHANGED <<rec_ops, rec_stamps, json_file, rec_acc, rec_kbd, rec_threads, rec_ui,
                   rec_lines, rec_line, rec_job, rec_keys, rec_typed>>
    /\ UNCHANGED <<coordVars, resolveVars, replayVars>>

\* The listener reads a line that makes it record, and runs up to the middle
\* of _record_operation (lines 363-371: the clock is read and the WAIT
\* appended): a SYNC with both coordinates, for which the touch is converted
\* and the snapshot captured before, or an Enter with a text that is not
\* blank while is_recording holds.
ListenRecordBegin ==
    /\ \E line \in EventLines, gap \in Gaps :
           LET ev == ParseTouchEvent(line)
               acc == rec_acc[ev.dev]
               typed == rec_kbd[ev.dev] \o KeyMapping(ev.key)
               last == IF rec_stamps = <<>> THEN 0 ELSE rec_stamps[Len(rec_stamps)]
               Begin(kind, op) ==
                   LET ops == Recorded(rec_ops, gap, op)
                       stamps == Stamped(rec_stamps, gap, Len(ops) = Len(rec_ops) + 2)
                   IN  /\ rec_ops' = SubSeq(ops, 1, Len(ops) - 1)
                       /\ rec_stamps' = SubSeq(stamps, 1, Len(stamps) - 1)
                       /\ rec_job' = [pending |-> TRUE, kind |-> kind, dev |-> ev.dev,
                                      now |-> last + gap, op |-> op]
           IN  /\ Listening(line)
               /\ \/ /\ ev.kind = "SYNC"
                     /\ acc.X # <<>> /\ acc.Y # <<>>
                     /\ \E ok \in BOOLEAN, snap \in UiSnapshots :
                           LET c == ConvertRawToScreenResult(acc.X[1], acc.Y[1])
                               elems == IF ok THEN snap ELSE rec_ui.elems
                               found == FindElementByCoords(elems, c.screen_x, c.screen_y)
                           IN  /\ rec_ui' = [elems |-> elems, fresh |-> ok]
                               /\ Begin("SYNC", Op("click", found, c.screen_x, c.screen_y,
                                                   <<>>, NoDuration))
                               /\ conv' = c
                               /\ geom_pc' = "converted"
                               /\ UNCHANGED <<rec_kbd, rec_keys, rec_typed>>
                  \/ /\ ev.kind = "KEY"
                     /\ ev.key = "KEY_ENTER" /\ ev.state = "DOWN"
                     /\ Strip(typed) # <<>>
                     /\ rec_pc = "recording"
                     /\ Begin("KEY", Op("input_text", NoElement, 0, 0, Strip(typed),
                                        NoDuration))
                     /\ rec_kbd' = [rec_kbd EXCEPT ![ev.dev] = typed]
                     /\ rec_keys' = rec_keys \cup {ev.dev}
                     /\ rec_typed' = rec_typed + Len(KeyMapping(ev.key))
                     /\ UNCHANGED <<rec_ui, conv, geom_pc>>
    /\ UNCHANGED <<rec_pc, json_file, rec_acc, rec_threads, rec_main>>
    /\ UNCHANGED <<raw_min_x, raw_max_x, raw_min_y, raw_max_y, probe_status>>
    /\ UNCHANGED <<resolveVars, replayVars>>

\* The listener runs the rest of that call (lines 373-379: the operation is
\* appended with the time read before, last_operation_time set, the file
\* written) and of the handler: the coordinates or the text are reset.  In
\* a session that was stopped meanwhile the listener then leaves its loop.
ListenRecordEnd ==
    /\ rec_job.pending
    /\ rec_ops' = Append(rec_ops, rec_job.op)
    /\ rec_stamps' = Append(rec_stamps, rec_job.now)
    /\ json_file' = SaveToJson(rec_ops')
    /\ rec_job' = NoJob
    /\ IF rec_job.kind = "SYNC"
       THEN /\ rec_acc' = [rec_acc EXCEPT ![rec_job.dev] = [X |-> <<>>, Y |-> <<>>]]
            /\ UNCHANGED rec_kbd
       ELSE /\ rec_kbd' = [rec_kbd EXCEPT ![rec_job.dev] = <<>>]
            /\ UNCHANGED rec_acc
    /\ rec_adb' = IF rec_pc = "stopped" THEN "off" ELSE rec_adb
    /\ UNCHANGED <<rec_pc, rec_threads, rec_ui, rec_lines, rec_line, rec_keys, rec_typed,
                   rec_main>>
    /\ UNCHANGED <<coordVars, resolveVars, replayVars>>

\* Variant: start_recording without its test of is_recording.
StartRecordingAgainResets ==
    /\ rec_pc = "recording"
    /\ rec_main' = [rec_main EXCEPT !.ret = @ \cup {"start:recording"}]
    /\ rec_ops' = <<>>
    /\ rec_stamps' = <<>>
    /\ rec_acc' = [d \in DeviceIds |-> [X |-> <<>>, Y |-> <<>>]]
    /\ rec_kbd' = [d \in DeviceIds |-> <<>>]
    /\ UNCHANGED <<rec_pc, json_file, rec_adb, rec_threads, rec_ui, rec_lines, rec_line,
                   rec_job, rec_keys, rec_typed>>
    /\ UNCHANGED <<coordVars, resolveVars, replayVars>>

\* start_recording while is_recording holds (lines 412-414): a warning and
\* return
StartRecordingAgain ==
    /\ rec_pc = "recording"
    /\ rec_main' = [rec_main EXCEPT !.ret = @ \cup {"start:recording"}]
    /\ UNCHANGED <<rec_pc, rec_ops, rec_stamps, json_file, rec_adb, rec_acc, rec_kbd,
                   rec_threads, rec_ui, rec_lines, rec_line, rec_job, rec_keys, rec_typed>>
    /\ UNCHANGED <<coordVars, resolveVars, replayVars>>

\* stop_recording while is_recording does not hold (lines 449-450): return
StopRecordingIdle ==
    /\ rec_pc # "recording"
    /\ rec_main' = [rec_main EXCEPT !.ret = @ \cup {"stop:idle"}]
    /\ UNCHANGED <<rec_pc, rec_ops, rec_stamps, json_file, rec_adb, rec_acc, rec_kbd,
                   rec_threads, rec_ui, rec_lines, rec_line, rec_job, rec_keys, rec_typed>>
    /\ UNCHANGED <<coordVars, resolveVars, replayVars>>

\* record_text_input while is_recording does not hold, or with a text that
\* strip() empties (lines 390-391): return
RecordTextIgnored ==
    /\ \E text \in Texts \cup {<<" ", "a", "\n">>} :
           /\ rec_pc # "recording" \/ Strip(text) = <<>>
           /\ rec_main' = [rec_main EXCEPT !.ret = @ \cup
                              {IF rec_pc # "recording" THEN "text:idle" ELSE "text:blank"}]
    /\ UNCHANGED <<rec_pc, rec_ops, rec_stamps, json_file, rec_adb, rec_acc, rec_kbd,
                   rec_threads, rec_ui, rec_lines, rec_line, rec_job, rec_keys, rec_typed>>
    /\ UNCHANGED <<coordVars, resolveVars, replayVars>>

\* Variant: only the root is validated.
ValidateLogRootOnly(file) ==
    IF ~ file.exists \/ file.root = "garbage" THEN "load_failed"
    ELSE IF file.root # "list" THEN "invalid"
    ELSE "new"

\* _load_and_validate_json: RuntimeError ("load_failed") when the file cannot
\* be opened or json.load raises, ValueError ("invalid") when the root is no
\* list or an element is no dict with "action_type", else the list ("new").
ValidateLog(file) ==
    IF \/ ~ file.exists
       \/ file.root = "garbage"
       \/ \E k \in 1..Len(file.doc) :
              file.doc[k].text.t = "str" /\ ~ JsonStringParses(file.doc[k].text.body)
    THEN "load_failed"
    ELSE IF file.root # "list" THEN "invalid"
    ELSE IF \E k \in 1..Len(file.doc) :
                ~ file.doc[k].is_object \/ ~ file.doc[k].has_action_type
    THEN "invalid"
    ELSE "new"

\* JsonToScriptGenerator(json_file_path): _load_and_validate_json, then the
\* script is generated from self.operations.
LoadAndValidateJson ==
    /\ rec_pc = "stopped"
    /\ rp_status = "idle"
    /\ rp_status' = ValidateLog(json_file)
    /\ LET \* The dict json.load returns for one object, as the generator reads it.
           LoadOp(obj) ==
               Op(obj.action_type,
                  IF obj.element.t = "obj" THEN IndexedElement(obj.element.n) ELSE NoElement,
                  obj.x.n, obj.y.n,
                  IF obj.text.t = "str" THEN JsonUnescape(obj.text.body) ELSE <<>>,
                  IF obj.duration.t = "num" THEN <<obj.duration.n>> ELSE NoDuration)
       IN  rp_ops' = IF ValidateLog(json_file) = "new"
                     THEN [k \in 1..Len(json_file.doc) |-> LoadOp(json_file.doc[k])]
                     ELSE rp_ops
    /\ UNCHANGED <<rp_pc, rp_trace, tw_trace, recordVars, coordVars, resolveVars>>

(***************************************************************************)
(* Specifications: the recorder's geometry and conversion, one call of an  *)
(* init-step helper, and one run of a generated replay script.             *)
(***************************************************************************)
\* A recorder just constructed, no helper called, no script generated: the
\* start of the geometry runs and of the helper runs alike.
CoordInit == CoordStart /\ ResolveStart /\ ReplayIdle /\ RecorderIdle

CoordNext ==
    \/ InitTouchDeviceBounds
    \/ InitTouchDeviceBoundsProbeFails
    \/ ConvertRawToScreen

SpecCoord == CoordInit /\ [][CoordNext]_vars

ResolveNext ==
    \/ ClickByIndex
    \/ LongPressElement
    \/ ClickElementByText
    \/ ClickElement
    \/ LongPressByText
    \/ ClickByDescAudio
    \/ ClickByDescSms

SpecResolve == CoordInit /\ [][ResolveNext]_vars

ReplayInit == CoordStart /\ ResolveStart /\ ReplayStart /\ RecorderIdle

ReplayNext ==
    \/ LoadScriptSyntaxError
    \/ RunOperationsEnter
    \/ RunOperationsBadEnv
    \/ ReplayClickIndexed
    \/ ReplayClickCoords
    \/ ReplayInputText
    \/ ReplayWait
    \/ ReplayUnsupported

SpecReplay == ReplayInit /\ [][ReplayNext]_vars

\* A replay, and a second replay of the same script.
SpecTwin == ReplayInit /\ [][ReplayNext \/ TwinRun]_vars

\* The fallback policy in both its places: a behaviour is one call of an
\* init-step helper, or one run of a generated script.
ResolveUnused ==
    /\ res_pc = "unused"
    /\ res_call = NoCall
    /\ res_snapshot = <<>>
    /\ res_out = NoOutcome
    /\ sim_name = <<>>
    /\ sim_out = <<>>

PolicyInit ==
    /\ CoordStart
    /\ RecorderIdle
    /\ \/ ResolveStart /\ ReplayIdle
       \/ ResolveUnused /\ ReplayStart

PolicyNext ==
    \/ ClickByIndex
    \/ LongPressElement
    \/ ClickElementByText
    \/ ClickElement
    \/ LongPressByText
    \/ ClickByDescAudio
    \/ ClickByDescSms
    \/ LoadScriptSyntaxError
    \/ RunOperationsEnter
    \/ RunOperationsBadEnv
    \/ ReplayClickIndexed
    \/ ReplayClickCoords
    \/ ReplayInputText
    \/ ReplayWait
    \/ ReplayUnsupported

SpecPolicy == PolicyInit /\ [][PolicyNext]_vars

\* A recording session, then the generator run on the file it left.
\* The session is one start_recording has begun (self.operations = [],
\* nothing saved yet); or a log that did not come from the recorder lies at
\* the path the generator is given: any root, and in a list also elements
\* that are no objects or objects without action_type.
RoundTripInit ==
    /\ CoordStart /\ ResolveUnused /\ ReplayIdle
    /\ rec_ops = <<>>
    /\ rec_stamps = <<>>
    /\ ListenerOff
    /\ \/ rec_pc = "recording" /\ json_file = NoFile
       \/ /\ rec_pc = "stopped"
          /\ LET good == DumpOp(Op("click", NoElement, 100, 200, <<>>, NoDuration))
                 elements == {good, [good EXCEPT !.has_action_type = FALSE],
                              [good EXCEPT !.is_object = FALSE]}
             IN  json_file \in
                    {[exists |-> TRUE, root |-> r, doc |-> <<>>] : r \in {"object", "garbage"}}
                    \cup {[exists |-> TRUE, root |-> "list", doc |-> d] :
                             d \in SeqsUpTo(elements, 2)}

RoundTripNext ==
    \/ RecordClick
    \/ RecordTextInput
    \/ StopRecording
    \/ LoadAndValidateJson

SpecRoundTrip == RoundTripInit /\ [][RoundTripNext]_vars

(***************************************************************************)
(* _similarize_name (similarize_name.py 1-23)                              *)
(***************************************************************************)
\* The names _similarize_name(name) can return, one for each index
\* random.choice can pick; similar_map is given for the letters the names
\* are made of.
Similarized(name) ==
    LET similar_map == [c \in {"e", "o", "u"} |->
                           CASE c = "e" -> "E" [] c = "o" -> "0" [] c = "u" -> "U"]
        indices == {i \in 1..Len(name) : LowerChar(name[i]) \in DOMAIN similar_map}
    IN  IF indices = {} THEN {name \o <<" ", "J", "r", ".">>}
        ELSE {[name EXCEPT ![idx] = similar_map[LowerChar(name[idx])]] : idx \in indices}

SimilarInit ==
    /\ CoordStart
    /\ ReplayIdle
    /\ RecorderIdle
    /\ res_pc = "unused"
    /\ res_call = NoCall
    /\ res_snapshot = <<>>
    /\ res_out = NoOutcome
    /\ sim_name \in SeqsUpTo({"e", "E", "U", "o", "x"}, MaxNameLen)
    /\ sim_out = <<>>

SimilarizeName ==
    /\ sim_out = <<>>
    /\ \E new_name \in Similarized(sim_name) : sim_out' = <<new_name>>
    /\ UNCHANGED <<sim_name, res_pc, res_call, res_snapshot, res_out>>
    /\ UNCHANGED <<coordVars, replayVars, recordVars>>

SpecSimilar == SimilarInit /\ [][SimilarizeName]_vars

(***************************************************************************)
(* A recording session: the recorder is constructed (the probe left the    *)
(* default geometry), started, fed getevent lines, stopped, and started    *)
(* again.                                                                  *)
(***************************************************************************)
RecorderInit ==
    /\ raw_min_x = DefaultRawMin
    /\ raw_min_y = DefaultRawMin
    /\ raw_max_x = DefaultRawMax
    /\ raw_max_y = DefaultRawMax
    /\ geom_pc = "ready"
    /\ probe_status = "ok"
    /\ conv = NoConv
    /\ ResolveUnused
    /\ ReplayIdle
    /\ RecorderIdle

RecorderNext ==
    \/ StartRecording
    \/ ListenSkip
    \/ ListenAxis
    \/ ListenSync
    \/ ListenKey
    \/ TimeoutCallback
    \/ TransportLost
    \/ StopRecording

SpecRecorder == RecorderInit /\ [][RecorderNext]_vars

\* The same with the scheduler's guarantee: a started timeout_callback
\* thread runs.  Lines, stop_recording and the loss of the connection come
\* from outside and need not happen.
SpecRecorderLive == SpecRecorder /\ WF_vars(TimeoutCallback)

\* The same recorder with its threads interleaved at a finer grain: the
\* main thread may be between the loop of stop_recording and
\* is_recording = False, and the listener in the middle of a
\* _record_operation call.
ThreadsNext ==
    \/ StartRecording
    \/ ListenSkip
    \/ ListenAxis
    \/ ListenSync
    \/ ListenKey
    \/ TimeoutCallback
    \/ TransportLost
    \/ ListenRecordBegin
    \/ ListenRecordEnd
    \/ StopLoop
    \/ StopRaise
    \/ StopJoin

SpecThreads == RecorderInit /\ [][ThreadsNext]_vars

\* The recorder as its caller drives it: start_recording, stop_recording
\* and the record_text_input calls that return at once, in any order and
\* state, between lines of the keyboards.
CallsNext ==
    \/ StartRecording
    \/ StartRecordingAgain
    \/ RecordTextIgnored
    \/ StopRecording
    \/ StopRecordingIdle
    \/ ListenKey

SpecCalls == RecorderInit /\ [][CallsNext]_vars

(***************************************************************************)
(* Claims about the coordinate transform (SpecCoord)                       *)
(***************************************************************************)
ValidGeometry == raw_max_x > raw_min_x /\ raw_max_y > raw_min_y

RawInRange ==
    /\ raw_min_x <= conv.raw_x /\ conv.raw_x <= raw_max_x
    /\ raw_min_y <= conv.raw_y /\ conv.raw_y <= raw_max_y

\* Numerator and denominator of the exact scaled value of one axis.
ScaledNum(raw, lo, hi, dim) == (Clamp(raw, lo, hi) - lo) * dim
ScaledDen(lo, hi) == hi - lo

\* C1: a raw pair inside [raw_min, raw_max] on both axes is converted to a
\* point with 0 <= screen_x <= screen_width and 0 <= screen_y <= screen_height.
C1_InRangeStaysOnScreen ==
    (conv.called /\ RawInRange) =>
        /\ 0 <= conv.screen_x /\ conv.screen_x <= ScreenWidth
        /\ 0 <= conv.screen_y /\ conv.screen_y <= ScreenHeight

C1_Witness ==
    /\ conv.called /\ ~conv.div_by_zero
    /\ raw_min_x < conv.raw_x /\ conv.raw_x < raw_max_x
    /\ raw_min_y < conv.raw_y /\ conv.raw_y < raw_max_y
    /\ 0 < conv.screen_x /\ conv.screen_x < ScreenWidth
    /\ 0 < conv.screen_y /\ conv.screen_y < ScreenHeight

\* C2: with a valid geometry the corners are exact: (raw_min_x, raw_min_y) is
\* converted to (0, 0) and (raw_max_x, raw_max_y) to (screen_width,
\* screen_height).
C2_CornersExact ==
    (conv.called /\ ValidGeometry) =>
        /\ (conv.raw_x = raw_min_x /\ conv.raw_y = raw_min_y)
              => (conv.screen_x = 0 /\ conv.screen_y = 0)
        /\ (conv.raw_x = raw_max_x /\ conv.raw_y = raw_max_y)
              => (conv.screen_x = ScreenWidth /\ conv.screen_y = ScreenHeight)

C2_Witness ==
    /\ conv.called /\ ValidGeometry
    /\ raw_min_x > 0 /\ raw_max_x # DefaultRawMax
    /\ conv.raw_x = raw_max_x /\ conv.raw_y = raw_max_y
    /\ conv.screen_x = ScreenWidth /\ conv.screen_y = ScreenHeight

\* C3: once _init_touch_device_bounds has completed, raw_max > raw_min on
\* both axes whatever the probe reported, so that no conversion divides by
\* zero.
C3_GeometryNeverDegenerate ==
    /\ geom_pc # "new" => ValidGeometry
    /\ conv.called => ~conv.div_by_zero

\* C4 as stated: each output axis is the scaled value rounded to the nearest
\* integer, i.e. it is no further than one half from the exact scaled value.
NearestInteger(s, num, den) == 2 * (num - s * den) <= den /\ 2 * (s * den - num) <= den

C4_RoundedToNearest ==
    (conv.called /\ ValidGeometry) =>
        /\ NearestInteger(conv.screen_x,
               ScaledNum(conv.raw_x, raw_min_x, raw_max_x, ScreenWidth),
               ScaledDen(raw_min_x, raw_max_x))
        /\ NearestInteger(conv.screen_y,
               ScaledNum(conv.raw_y, raw_min_y, raw_max_y, ScreenHeight),
               ScaledDen(raw_min_y, raw_max_y))

\* C4 as amended: each output axis is the scaled value of the clamped input
\* truncated by int(): an integer s in [0, screen_dimension] that is never
\* above the exact scaled value v and less than one below it, or exactly one
\* below when the float product of an integral v falls short (s <= v <= s + 1,
\* and v < s + 1 unless v is an integer).
TruncatedInteger(s, num, den) ==
    /\ s * den <= num
    /\ num <= (s + 1) * den
    /\ (num = (s + 1) * den) => (num % den = 0)

C4_Truncated ==
    (conv.called /\ ValidGeometry) =>
        /\ TruncatedInteger(conv.screen_x,
               ScaledNum(conv.raw_x, raw_min_x, raw_max_x, ScreenWidth),
               ScaledDen(raw_min_x, raw_max_x))
        /\ TruncatedInteger(conv.screen_y,
               ScaledNum(conv.raw_y, raw_min_y, raw_max_y, ScreenHeight),
               ScaledDen(raw_min_y, raw_max_y))
        /\ 0 <= conv.screen_x /\ conv.screen_x <= ScreenWidth
        /\ 0 <= conv.screen_y /\ conv.screen_y <= ScreenHeight

\* A conversion whose exact value has a fractional part above one half: the
\* recorded event X=16000, Y=16000 on the default range gives (527, 1171).
C4_Witness ==
    /\ conv.called /\ ValidGeometry
    /\ raw_min_y = DefaultRawMin /\ raw_max_y = DefaultRawMax
    /\ conv.raw_y = 16000 /\ conv.screen_y = 1171
    /\ ~NearestInteger(conv.screen_y,
           ScaledNum(conv.raw_y, raw_min_y, raw_max_y, ScreenHeight),
           ScaledDen(raw_min_y, raw_max_y))

(***************************************************************************)
(* Claims about element resolution (SpecResolve).  The matching relations  *)
(* of the specification are stated here on their own, on the characters of *)
(* the strings.                                                            *)
(***************************************************************************)
NonEmpty(str) == str # NoneStr /\ Len(str) > 0

SameIgnoringCase(a, b) ==
    Len(a) = Len(b) /\ \A i \in 1..Len(a) : LowerChar(a[i]) = LowerChar(b[i])

ContainsIgnoringCase(hay, needle) ==
    \E off \in 0..(Len(hay) - Len(needle)) :
        \A i \in 1..Len(needle) : LowerChar(hay[off + i]) = LowerChar(needle[i])

TextEquals(elem, cand) == NonEmpty(elem.text) /\ SameIgnoringCase(elem.text, cand)

DescContains(elem, cand) ==
    NonEmpty(elem.content_description)
        /\ ContainsIgnoringCase(elem.content_description, cand)

Done(fns) == res_pc = "done" /\ res_call.fn \in fns

TextFns == {"_long_press_by_text"}
DescFns == {"_click_element_by_content_description",
            "sms._click_element_by_content_description"}

SomeTextMatch ==
    \E k \in 1..Len(res_call.targets), j \in 1..Len(res_snapshot) :
        TextEquals(res_snapshot[j], res_call.targets[k])

SomeDescMatch ==
    \E k \in 1..Len(res_call.targets), j \in 1..Len(res_snapshot) :
        DescContains(res_snapshot[j], res_call.targets[k])

ClickTextFns == {"_click_element", "_click_element_by_text"}

\* The text stage of a text-click helper ended without a click: every
\* candidate was reported not found (ValueError), or, in _click_element, the
\* candidates before the first AttributeError were.
FindFellThrough ==
    LET finds == res_call.finds
    IN  \/ \A k \in 1..Len(finds) : finds[k] = "ValueError"
        \/ /\ res_call.fn = "_click_element"
           /\ \E k \in 1..Len(finds) :
                 /\ finds[k] = "AttributeError"
                 /\ \A k2 \in 1..(k - 1) : finds[k2] = "ValueError"

\* The calls that resolve Index(i): by-index helpers, and the fallback index
\* of a text query none of whose candidates matched or was found.
IndexAttempt ==
    \/ Done({"_click_by_index", "_long_press_element"})
    \/ Done(TextFns) /\ ~SomeTextMatch /\ res_call.index # NoIndex
    \/ Done(ClickTextFns) /\ FindFellThrough /\ res_call.index # NoIndex

IndexKind ==
    IF res_call.fn \in {"_click_by_index"} \cup ClickTextFns
    THEN "click" ELSE "long_press"

\* C5: resolving Index(i) against a snapshot succeeds iff 0 <= i <
\* len(snapshot); the command then goes to element i, and otherwise
\* IndexError is raised and no device command is executed.  This holds for
\* click by index, long press by index and the fallback index.
C5_IndexValidIffInRange ==
    IndexAttempt =>
        LET i == res_call.index[1]
        IN  IF 0 <= i /\ i < Len(res_snapshot)
            THEN /\ res_out.raised # "IndexError"
                 /\ res_out.cmds = <<IndexCmd(IndexKind, i)>>
            ELSE /\ res_out.raised = "IndexError"
                 /\ res_out.cmds = <<>>

C5_Witness ==
    /\ Done(TextFns) /\ ~SomeTextMatch /\ res_call.index # NoIndex
    /\ Len(res_snapshot) > 0
    /\ res_call.index[1] = Len(res_snapshot)
    /\ res_out.raised = "IndexError"
    /\ res_out.cmds = <<>>

\* C6: text resolution is case-insensitive equality of the whole string: a
\* text query acts on a text match iff some element's text is non-empty and
\* equals a candidate ignoring case, and the element it acts on is such an
\* element (text "Ok" is not matched by candidate "o").
C6_TextMatchIsFullStringIgnoringCase ==
    Done(TextFns) =>
        /\ (res_out.via = "text") <=> SomeTextMatch
        /\ (res_out.via = "text") =>
              /\ Len(res_out.cmds) = 1
              /\ \E k \in 1..Len(res_call.targets) :
                    TextEquals(res_snapshot[res_out.cmds[1].index + 1],
                               res_call.targets[k])

\* text "Ok" is passed over by candidate "o", text "O" is taken.
C6_Witness ==
    /\ Done(TextFns)
    /\ res_call.targets = << <<"o">> >>
    /\ Len(res_snapshot) = 2
    /\ res_snapshot[1].text = <<"O", "k">>
    /\ res_snapshot[2].text = <<"O">>
    /\ res_out.via = "text"
    /\ res_out.cmds = <<IndexCmd("long_press", 1)>>

\* C7: content-description resolution is case-insensitive substring matching:
\* the element clicked has a non-empty content_description that contains a
\* candidate ignoring case, and a query whose first candidate is contained in
\* some element's description clicks (every candidate counts where the whole
\* list is tried).
C7_DescMatchIsSubstringIgnoringCase ==
    Done(DescFns) =>
        /\ (res_out.via = "desc") =>
              /\ Len(res_out.cmds) = 1
              /\ \E k \in 1..Len(res_call.targets) :
                    DescContains(res_snapshot[res_out.cmds[1].index + 1],
                                 res_call.targets[k])
        /\ (Len(res_call.targets) > 0
               /\ \E j \in 1..Len(res_snapshot) :
                     DescContains(res_snapshot[j], res_call.targets[1]))
              => res_out.via = "desc"
        /\ (Len(res_call.targets) = 1 \/ res_call.fn = "sms._click_element_by_content_description")
              => ((res_out.via = "desc") <=> SomeDescMatch)

\* content_description "Ok" is matched by candidate "o".
C7_Witness ==
    /\ Done(DescFns)
    /\ res_call.targets = << <<"o">> >>
    /\ Len(res_snapshot) = 2
    /\ res_snapshot[1].content_description = <<>>
    /\ res_snapshot[2].content_description = <<"O", "k">>
    /\ res_out.via = "desc"
    /\ res_out.cmds = <<IndexCmd("click", 1)>>

\* C8: _click_element_by_content_description raises the not-found failure
\* iff no candidate of target_descs matches any element: a later candidate
\* that matches is clicked, and without any match the call fails instead of
\* returning with no command.
C8_NotFoundIffNoCandidateMatches ==
    (Done(DescFns) /\ Len(res_call.targets) > 0) =>
        /\ (res_out.raised = "RuntimeError") <=> ~SomeDescMatch
        /\ SomeDescMatch => Len(res_out.cmds) = 1

\* The element the specification resolves: the first candidate, in list
\* order, that matches some element, then the first element it matches.
FirstMatchingCand(Matches(_, _)) ==
    CHOOSE k \in 1..Len(res_call.targets) :
        /\ \E j \in 1..Len(res_snapshot) : Matches(res_snapshot[j], res_call.targets[k])
        /\ \A k2 \in 1..(k - 1) : \A j \in 1..Len(res_snapshot) :
              ~Matches(res_snapshot[j], res_call.targets[k2])

FirstElementOf(Matches(_, _), k) ==
    CHOOSE j \in 1..Len(res_snapshot) :
        /\ Matches(res_snapshot[j], res_call.targets[k])
        /\ \A j2 \in 1..(j - 1) : ~Matches(res_snapshot[j2], res_call.targets[k])

ResolvesTo(Matches(_, _), kind) ==
    res_out.cmds = <<IndexCmd(kind, FirstElementOf(Matches, FirstMatchingCand(Matches)) - 1)>>

\* C9: a text or content-description query resolves to the first matching
\* element of the first candidate that matches at all; candidate order comes
\* before element order.
C9_FirstCandidateThenFirstElement ==
    /\ (Done(TextFns) /\ SomeTextMatch) => ResolvesTo(TextEquals, "long_press")
    /\ (Done(DescFns) /\ SomeDescMatch) => ResolvesTo(DescContains, "click")

(***************************************************************************)
(* Claims about replay (SpecReplay)                                        *)
(***************************************************************************)
\* The recorded operation of the k-th step that ran is a click carrying an
\* element index and coordinates.
IndexedClickAt(k) ==
    /\ rp_ops[k].action_type \in {"click", "Click"}
    /\ rp_ops[k].element.kind = "indexed"

DeviceWorked(k) == rp_trace[k].dev.fault = "none"

\* C10: a replayed click with chain Index(i) -> Coordinates(x,y): if i is out
\* of range for the snapshot captured at replay time the step executes
\* exactly one click at (x,y) and no exception escapes it; if i is in range
\* it executes exactly one click on index i and attempts no coordinate click.
\* The command sequences hold whatever the device answers; "no exception"
\* is for a device layer whose get_state and execute_adb_action work.
C10_IndexThenCoordinates ==
    \A k \in 1..Len(rp_trace) :
        IndexedClickAt(k) =>
            LET op == rp_ops[k]
                i == op.element.index
                n == rp_trace[k].dev.snaplen
                out == rp_trace[k].out
            IN  /\ out.raised # "IndexError"
                /\ DeviceWorked(k) =>
                      /\ out.raised = "none"
                      /\ out.cmds = IF 0 <= i /\ i < n
                                    THEN <<IndexCmd("click", i)>>
                                    ELSE <<CoordCmd("click", op.x, op.y)>>
                /\ (0 <= i /\ i < n) =>
                      \A c \in 1..Len(out.cmds) : out.cmds[c] = IndexCmd("click", i)
                /\ ~(0 <= i /\ i < n) =>
                      \A c \in 1..Len(out.cmds) : out.cmds[c] = CoordCmd("click", op.x, op.y)
                /\ Len(out.cmds) <= 1

\* index 2 on a snapshot of two elements falls to the coordinates, and the
\* next step's index 1 is clicked on a snapshot of two elements.
C10_Witness ==
    /\ rp_status = "done"
    /\ Len(rp_trace) = 2
    /\ IndexedClickAt(1) /\ IndexedClickAt(2)
    /\ rp_ops[1].element.index = 2 /\ rp_trace[1].dev.snaplen = 2
    /\ rp_trace[1].out.cmds = <<CoordCmd("click", 100, 200)>>
    /\ rp_trace[1].out.warnings = <<"index_invalid">>
    /\ rp_ops[2].element.index = 1 /\ rp_trace[2].dev.snaplen = 2
    /\ rp_trace[2].out.cmds = <<IndexCmd("click", 1)>>

(***************************************************************************)
(* Claims about the fallback policy of the init-step helpers (SpecResolve, *)
(* SpecPolicy)                                                             *)
(***************************************************************************)
AllNotFound == \A k \in 1..Len(res_call.finds) : res_call.finds[k] = "ValueError"

FallbackInRange ==
    /\ res_call.index # NoIndex
    /\ 0 <= res_call.index[1] /\ res_call.index[1] < Len(res_snapshot)

Warned(w) == \E k \in 1..Len(res_out.warnings) : res_out.warnings[k] = w

\* C11: when no text candidate is found in the snapshot and fallback_index is
\* in range, _click_element and _click_element_by_text execute exactly one
\* click, on the element at fallback_index, and log the fallback warning
\* (the warning follows the click, so it is there once the click returned).
C11_TextMissClicksFallbackIndex ==
    (Done(ClickTextFns) /\ AllNotFound /\ FallbackInRange) =>
        /\ res_out.cmds = <<IndexCmd("click", res_call.index[1])>>
        /\ res_out.raised \in {"none", "ActuationError"}
        /\ res_out.raised = "none" => Warned("fallback_index")

C11_Witness ==
    /\ Done({"_click_element"})
    /\ Len(res_call.finds) = 2 /\ AllNotFound
    /\ res_call.index = <<1>> /\ Len(res_snapshot) = 2
    /\ res_out.raised = "none"
    /\ res_out.cmds = <<IndexCmd("click", 1)>>
    /\ res_out.warnings = <<"fallback_index">>

\* The text stage of a text query with candidates ended without a match.
TextStageMissed ==
    /\ Len(res_call.targets) > 0
    /\ res_call.fn \in TextFns => ~SomeTextMatch
    /\ res_call.fn \in ClickTextFns => AllNotFound

\* C12: when a Text -> Index chain ends in a resolution failure, the
\* exception the caller gets names every resolution failure met on the way:
\* the text-no-match failure as well as the index-out-of-range failure.
C12_FailureCarriesWholeChain ==
    (Done(TextFns \cup ClickTextFns) /\ res_out.raised \in {"IndexError", "RuntimeError"}) =>
        /\ TextStageMissed => "NoTextMatch" \in res_out.report
        /\ (res_call.index # NoIndex /\ ~FallbackInRange) =>
              "IndexOutOfRange" \in res_out.report

\* A text helper left its text stage for the fallback index.
TextToIndexTransition ==
    /\ Len(res_call.targets) > 0
    /\ res_call.index # NoIndex
    /\ \/ Done(TextFns) /\ ~SomeTextMatch
       \/ Done(ClickTextFns) /\ FindFellThrough

\* C13: every transition of the fallback policy from a spec to its fallback
\* is reported as a warning-level event, whether the run ends in done or not.
C13_EveryTransitionWarned ==
    /\ TextToIndexTransition => Len(res_out.warnings) > 0
    /\ \A k \in 1..Len(rp_trace) :
          (/\ rp_ops[k].action_type \in {"click", "Click"}
           /\ rp_ops[k].element.kind = "indexed"
           /\ rp_trace[k].dev.fault # "get_state_1"
           /\ ~(0 <= rp_ops[k].element.index
                  /\ rp_ops[k].element.index < rp_trace[k].dev.snaplen))
              => Len(rp_trace[k].out.warnings) > 0

(***************************************************************************)
(* Claims about the fallback policy in the helpers and in replay           *)
(* (SpecPolicy)                                                            *)
(***************************************************************************)
ResolutionFailures == {"IndexError", "RuntimeError"}

PolicyFns == TextFns \cup ClickTextFns \cup {"_click_by_index", "_long_press_element"}

\* One action attempt ended in done with exactly one device command, or in
\* FAILED with none, and in no case issued more than one.
OneCommandPerAction(out) ==
    /\ out.raised = "none" => Len(out.cmds) = 1
    /\ out.raised \in ResolutionFailures => Len(out.cmds) = 0
    /\ Len(out.cmds) <= 1

ClickAt(k) == rp_ops[k].action_type \in {"click", "Click"}

\* C14: each action attempt handled by the fallback policy issues exactly one
\* device command when it ends in done and none when it ends in FAILED; on no
\* path (text candidates, index fallback, coordinate fallback) are two
\* commands issued for one action.
C14_OneCommandPerAction ==
    /\ Done(PolicyFns) => OneCommandPerAction(res_out)
    /\ \A k \in 1..Len(rp_trace) : ClickAt(k) => OneCommandPerAction(rp_trace[k].out)

\* a replayed click that fell to its coordinates issued the coordinate click
\* only, after an earlier click went to its index.
C14_Witness ==
    /\ Len(rp_trace) = 2
    /\ IndexedClickAt(1) /\ IndexedClickAt(2)
    /\ rp_trace[1].out.cmds = <<IndexCmd("click", 0)>>
    /\ rp_trace[2].out.raised = "none"
    /\ rp_trace[2].out.warnings = <<"index_invalid">>
    /\ rp_trace[2].out.cmds = <<CoordCmd("click", 100, 200)>>

IndexInRangeAt(k) ==
    /\ 0 <= rp_ops[k].element.index
    /\ rp_ops[k].element.index < rp_trace[k].dev.snaplen

\* C15: an actuation failure raised while executing a spec that still has a
\* fallback in its chain is recovered by advancing to that fallback: a
\* replayed index click whose command fails goes on to the coordinate click,
\* and a text click whose command fails does not end the helper while a
\* fallback index remains.
C15_ActuationFailureAdvances ==
    /\ \A k \in 1..Len(rp_trace) :
          (IndexedClickAt(k) /\ IndexInRangeAt(k) /\ rp_trace[k].dev.fault = "actuation")
              => \E c \in 1..Len(rp_trace[k].out.cmds) :
                     rp_trace[k].out.cmds[c] = CoordCmd("click", rp_ops[k].x, rp_ops[k].y)
    /\ (Done(ClickTextFns) /\ res_call.index # NoIndex)
          => ~(res_out.raised = "ActuationError" /\ res_out.via = "find_and_click_element")

(***************************************************************************)
(* Claims about the generated replay (SpecReplay)                          *)
(***************************************************************************)
\* JSONAction(action_type=INPUT_TEXT, text=t, clear_text=True), stated on its
\* fields.
IsInputTextOf(cmd, t) ==
    cmd.kind = "input_text" /\ cmd.by = "clear_text" /\ cmd.text = t

\* C16: a click whose element is null, not an object, empty or without index
\* is replayed as one click at (x,y) with no index attempt; a click whose
\* element carries an index (0 included) is replayed on that index first and
\* falls to (x,y); an input_text is replayed as one InputText with
\* clear_text and the recorded text.  Stated for steps in which the device
\* layer works; without an index no index command is issued in any case.
C16_GeneratorTranslation ==
    \A k \in 1..Len(rp_trace) :
        LET op == rp_ops[k]
            out == rp_trace[k].out
            worked == rp_trace[k].dev.fault = "none"
        IN  /\ (ClickAt(k) /\ op.element.kind # "indexed") =>
                  /\ \A c \in 1..Len(out.cmds) : out.cmds[c] = CoordCmd("click", op.x, op.y)
                  /\ out.warnings = <<>>
                  /\ worked => out.cmds = <<CoordCmd("click", op.x, op.y)>>
            /\ (IndexedClickAt(k) /\ worked) =>
                  IF IndexInRangeAt(k)
                  THEN out.cmds = <<IndexCmd("click", op.element.index)>>
                  ELSE out.cmds = <<CoordCmd("click", op.x, op.y)>>
            /\ (op.action_type = "input_text" /\ worked) =>
                  /\ Len(out.cmds) = 1
                  /\ IsInputTextOf(out.cmds[1], op.text)

\* a click recorded without element, then a text with a quote in it; and the
\* index 0 of a recorded element is tried as an index.
C16_Witness ==
    /\ Len(rp_trace) = 2
    /\ \/ /\ ClickAt(1) /\ rp_ops[1].element.kind = "null"
          /\ rp_trace[1].out.cmds = <<CoordCmd("click", 100, 200)>>
          /\ rp_ops[2].action_type = "input_text"
          /\ rp_ops[2].text = <<"\"", "a">>
          /\ rp_trace[2].out.raised = "none"
          /\ IsInputTextOf(rp_trace[2].out.cmds[1], <<"\"", "a">>)
       \/ /\ IndexedClickAt(1) /\ rp_ops[1].element.index = 0
          /\ rp_trace[1].out.cmds = <<IndexCmd("click", 0)>>
          /\ rp_ops[2].action_type = "input_text"
          /\ rp_ops[2].text = <<"\n">>
          /\ rp_trace[2].out.raised = "none"
          /\ IsInputTextOf(rp_trace[2].out.cmds[1], <<"\n">>)

\* steps of the recorded sequence that the run has not reached
NotReached == Len(rp_ops) - Len(rp_trace)

\* C17: when a replay step ends in an exception that leaves it (a device
\* failure, or a resolution failure with no fallback left), the replay stops
\* there: that step is the last one that ran, so no later device command and
\* no later WAIT is executed, and the run is failed.
C17_ReplayStopsAtFirstFailure ==
    /\ \A k \in 1..Len(rp_trace) :
           rp_trace[k].out.raised # "none" =>
               /\ k = Len(rp_trace)
               /\ rp_status = "failed"
    /\ rp_status = "failed" => ~ ENABLED ReplayNext

\* a first step that failed with a WAIT or a click still to come
C17_Witness ==
    /\ Len(rp_trace) = 1
    /\ rp_trace[1].out.raised # "none"
    /\ NotReached = 1
    /\ rp_ops[2].action_type \in {"WAIT", "click"}
    /\ rp_status = "failed"

WaitAt(k) == rp_ops[k].action_type \in {"WAIT", "wait"}

\* the recorded duration of a WAIT, 0 when the operation has none
RecordedDuration(op) == IF op.duration = <<>> THEN 0 ELSE op.duration[1]

\* the commands a recorded operation may cause on the device
CommandOf(op, cmd) ==
    \/ /\ op.action_type \in {"click", "Click"}
       /\ \/ cmd = CoordCmd("click", op.x, op.y)
          \/ op.element.kind = "indexed" /\ cmd = IndexCmd("click", op.element.index)
    \/ op.action_type = "input_text" /\ IsInputTextOf(cmd, op.text)

\* C18: the replay runs the steps in recorded order, one at a time: the k-th
\* step that ran is the step of the k-th recorded operation, and it ran to
\* its end before the next one started.  A WAIT issues no device command and
\* only suspends the replay for its duration, 0 when the operation has none;
\* no other step suspends the replay for a recorded duration.
C18_RecordedOrderOneAtATime ==
    /\ rp_pc = Len(rp_trace)
    /\ Len(rp_trace) <= Len(rp_ops)
    /\ \A k \in 1..Len(rp_trace) :
           LET op == rp_ops[k]
               rec == rp_trace[k]
           IN  /\ \A c \in 1..Len(rec.out.cmds) : CommandOf(op, rec.out.cmds[c])
               /\ IF WaitAt(k)
                  THEN /\ rec.out.cmds = <<>>
                       /\ rec.out.raised = "none"
                       /\ rec.slept = RecordedDuration(op)
                  ELSE rec.slept = 0

\* a click that reached the device, then a WAIT without duration; or a WAIT
\* of 2 seconds, then a text
C18_Witness ==
    /\ Len(rp_trace) = 2
    /\ rp_status = "done"
    /\ \/ /\ ClickAt(1) /\ Len(rp_trace[1].out.cmds) = 1
          /\ WaitAt(2) /\ rp_ops[2].duration = <<>> /\ rp_trace[2].slept = 0
       \/ /\ WaitAt(1) /\ rp_ops[1].duration = <<2>> /\ rp_trace[1].slept = 2
          /\ rp_ops[2].action_type = "input_text" /\ Len(rp_trace[2].out.cmds) = 1

UnsupportedOp(op) ==
    op.action_type \notin {"click", "Click", "input_text", "WAIT", "wait"}

\* C19: an operation whose action type is none of click, input_text and WAIT
\* passes through the replay with a warning: it is not fatal to the replay,
\* and when its turn comes the replay issues no device command for it, logs
\* a warning and goes on with the next step.
C19_UnsupportedPassesWithWarning ==
    /\ (\E k \in 1..Len(rp_ops) : UnsupportedOp(rp_ops[k])) => rp_status # "syntax_error"
    /\ \A k \in 1..Len(rp_trace) :
           UnsupportedOp(rp_ops[k]) =>
               /\ rp_trace[k].out.cmds = <<>>
               /\ rp_trace[k].out.raised = "none"
               /\ Len(rp_trace[k].out.warnings) > 0
               /\ k < Len(rp_ops) => rp_status = "running" \/ Len(rp_trace) > k

(***************************************************************************)
(* Claims about recording, saving and generating (SpecRoundTrip)           *)
(***************************************************************************)
\* C20: for every sequence of operations the recorder produces, the file
\* _save_to_json writes is read back by JsonToScriptGenerator, and the steps
\* generated from what was read (kind, index or coordinates, text, wait
\* duration, in order) are the steps generated from the sequence in memory.
C20_SaveLoadRoundTrip ==
    (json_file = SaveToJson(rec_ops) /\ rp_status # "idle") =>
        /\ rp_status = "new"
        /\ Len(rp_ops) = Len(rec_ops)
        /\ GeneratedSteps(rp_ops) = GeneratedSteps(rec_ops)

\* a click on a recorded element, a WAIT the recorder put in, then a text
\* with a quote in it, saved and read back
C20_Witness ==
    /\ rp_status = "new"
    /\ json_file = SaveToJson(rec_ops)
    /\ Len(rec_ops) = 3
    /\ rec_ops[1].action_type = "click"
    /\ rec_ops[1].element.kind = "indexed"
    /\ rec_ops[2].action_type = "WAIT"
    /\ rec_ops[2].duration = <<100>>
    /\ rec_ops[3].action_type = "input_text"
    /\ rec_ops[3].text = <<"\"", "a">>
    /\ GeneratedSteps(rp_ops)[3].text = <<"\"", "a">>
    /\ GeneratedSteps(rp_ops)[2].duration = 100

(***************************************************************************)
(* Claims about two replays of one script (SpecTwin)                       *)
(***************************************************************************)
\* the device commands of a run, step by step
Commands(trace) == [k \in 1..Len(trace) |-> trace[k].out.cmds]

ListOfTypedObjects(file) ==
    /\ file.root = "list"
    /\ \A k \in 1..Len(file.doc) : file.doc[k].is_object /\ file.doc[k].has_action_type

\* C22: the generator rejects an invalid log when it loads it.  A root that
\* is no list, or an element that is no object with action_type, raises
\* ValueError; a file that cannot be read or parsed raises RuntimeError; in
\* both cases no script is generated.  Every log that passes is a list of
\* objects that each have action_type.
C22_InvalidLogRejected ==
    rp_status # "idle" =>
        /\ rp_status = "new" <=>
               json_file.exists /\ json_file.root # "garbage" /\ ListOfTypedObjects(json_file)
        /\ rp_status = "load_failed" <=> (~ json_file.exists \/ json_file.root = "garbage")
        /\ rp_status = "invalid" <=>
               json_file.exists /\ json_file.root # "garbage" /\ ~ ListOfTypedObjects(json_file)
        /\ rp_status # "new" => rp_ops = <<>>
        /\ rp_status = "new" => Len(rp_ops) = Len(json_file.doc)

\* a list whose second element lacks action_type was rejected
C22_Witness ==
    /\ rp_status = "invalid"
    /\ json_file.root = "list"
    /\ Len(json_file.doc) = 2
    /\ json_file.doc[1].is_object /\ json_file.doc[1].has_action_type
    /\ json_file.doc[2].is_object /\ ~ json_file.doc[2].has_action_type
    /\ rp_ops = <<>>

(***************************************************************************)
(* Claims about the recording listener.                                    *)
(***************************************************************************)
\* The step reads a line that parses to an event of this kind.
Reads(kind) ==
    /\ rec_lines' = rec_lines + 1
    /\ ParseTouchEvent(rec_line').kind = kind

\* The step appends exactly this operation, after a WAIT or not.
AppendsOne(op) ==
    \/ rec_ops' = Append(rec_ops, op)
    \/ /\ Len(rec_ops') = Len(rec_ops) + 2
       /\ SubSeq(rec_ops', 1, Len(rec_ops)) = rec_ops
       /\ rec_ops'[Len(rec_ops) + 1].action_type = "WAIT"
       /\ rec_ops'[Len(rec_ops) + 2] = op

\* C23: a SYNC event for a device whose accumulator holds both X and Y
\* appends exactly one click at the transform of the accumulated raw values
\* and resets that accumulator; the element of the click is null when the
\* snapshot capture failed or the lookup found nothing.  A SYNC event with X
\* or Y missing appends nothing and leaves the accumulator as it was.
C23_SyncRecordsClick ==
    [][Reads("SYNC") =>
        LET d == rec_line'.dev
            acc == rec_acc[d]
        IN  IF acc.X # <<>> /\ acc.Y # <<>>
            THEN LET c == ConvertRawToScreenResult(acc.X[1], acc.Y[1])
                     last == rec_ops'[Len(rec_ops')]
                 IN  /\ Len(rec_ops') > Len(rec_ops)
                     /\ last.action_type = "click"
                     /\ last.x = c.screen_x /\ last.y = c.screen_y
                     /\ AppendsOne(last)
                     /\ rec_acc' = [rec_acc EXCEPT ![d] = [X |-> <<>>, Y |-> <<>>]]
                     /\ (~rec_ui'.fresh) => last.element = NoElement
            ELSE rec_ops' = rec_ops /\ rec_acc' = rec_acc]_vars

\* The step reads a line that is this key going down.
ReadsKeyDown(key) ==
    /\ Reads("KEY")
    /\ ParseTouchEvent(rec_line').key = key
    /\ ParseTouchEvent(rec_line').state = "DOWN"

\* C24: after an Enter key-down on a device that device's pending text is
\* empty, and if the text was not blank before, exactly one input_text
\* operation carrying it was appended.
C24_EnterEmptiesBuffer ==
    [][ReadsKeyDown("KEY_ENTER") =>
        LET d == rec_line'.dev
        IN  /\ rec_kbd'[d] = <<>>
            /\ Strip(rec_kbd[d]) # <<>> =>
                  AppendsOne(Op("input_text", NoElement, 0, 0, Strip(rec_kbd[d]),
                                NoDuration))]_vars

\* C25: while recording, a pending text that is not blank and gets no
\* further event is eventually flushed and cleared by the idle timeout,
\* with no Enter and no stop_recording.
C25_IdleTimeoutFlushes ==
    \A d \in DeviceIds, n \in 0..MaxEvents :
        [](rec_pc = "recording" /\ Strip(rec_kbd[d]) # <<>> /\ rec_lines = n
             => <>(Strip(rec_kbd[d]) = <<>> \/ rec_lines # n \/ rec_pc # "recording"))

\* C26: a key event changes only its own device's pending text, and as the
\* fold says: a printable key going down appends its character (unless the
\* step flushes, which only Enter does), backspace going down drops the last
\* character if there is one, and a key going up, a shift key or an unmapped
\* key changes nothing and records nothing.  Lines that are no key events
\* leave every pending text alone.
C26_BufferIsFoldOfKeys ==
    [][rec_lines' = rec_lines + 1 =>
        LET line == rec_line'
            d == line.dev
            before == rec_kbd[d]
            after == rec_kbd'[d]
        IN  IF line.parts >= 4 /\ line.type = "EV_KEY"
            THEN /\ \A e \in DeviceIds \ {d} : rec_kbd'[e] = rec_kbd[e]
                 /\ IF \/ line.value # <<"D", "O", "W", "N">>
                       \/ line.code \in {"KEY_LEFTSHIFT", "KEY_RIGHTSHIFT"}
                       \/ line.code # "KEY_BACKSPACE" /\ KeyMapping(line.code) = <<>>
                    THEN after = before /\ rec_ops' = rec_ops
                    ELSE IF line.code = "KEY_BACKSPACE"
                    THEN /\ after = SubSeq(before, 1, Len(before) - 1)
                         /\ rec_ops' = rec_ops
                    ELSE /\ rec_ops' = rec_ops => after = before \o KeyMapping(line.code)
                         /\ rec_ops' # rec_ops => line.code = "KEY_ENTER"
            ELSE rec_kbd' = rec_kbd]_vars

\* "a", "a" and a backspace were typed on event1: "a" is pending
C26_Witness ==
    /\ rec_lines = 3
    /\ rec_line.code = "KEY_BACKSPACE"
    /\ rec_kbd["event1"] = <<"a">>
    /\ rec_ops = <<>>

\* The recorded operations that are no WAIT, and for the operation at k the
\* time of the one before it (0 at the start of the session).
RealOps == {k \in 1..Len(rec_ops) : rec_ops[k].action_type # "WAIT"}

PrevTime(k) ==
    LET before == {j \in RealOps : j < k}
    IN  IF before = {} THEN 0
        ELSE rec_stamps[CHOOSE j \in before : \A i \in before : i <= j]

\* A WAIT stands immediately before the operation at k exactly when more
\* than a second lies between it and the operation before it and it is not
\* the first of the session.
WaitIffGap(k) ==
    (k > 1 /\ rec_ops[k - 1].action_type = "WAIT")
        <=> (rec_stamps[k] - PrevTime(k) > 1000 /\ \E j \in RealOps : j < k)

\* C27 as stated: the WAIT is there exactly when the gap exceeds a second
\* and the operation is not the first, and its duration is the gap
\* t - t_prev.
C27_WaitCarriesGap ==
    /\ Len(rec_stamps) = Len(rec_ops)
    /\ \A k \in RealOps :
          /\ WaitIffGap(k)
          /\ (k > 1 /\ rec_ops[k - 1].action_type = "WAIT") =>
                rec_ops[k - 1].duration = <<rec_stamps[k] - PrevTime(k)>>

\* C27, amended: the same with the duration being the gap rounded to
\* hundredths of a second; the first operation is never preceded by a WAIT.
C27_WaitCarriesRoundedGap ==
    /\ Len(rec_stamps) = Len(rec_ops)
    /\ rec_ops # <<>> => rec_ops[1].action_type # "WAIT"
    /\ \A k \in RealOps :
          /\ WaitIffGap(k)
          /\ (k > 1 /\ rec_ops[k - 1].action_type = "WAIT") =>
                LET gap == rec_stamps[k] - PrevTime(k)
                    hundredths == rec_ops[k - 1].duration[1]
                IN  /\ Len(rec_ops[k - 1].duration) = 1
                    /\ 10 * hundredths - 5 <= gap
                    /\ gap <= 10 * hundredths + 5

\* an operation, then one 1.004 s later with its WAIT of 1.0 s
C27_Witness ==
    /\ Len(rec_ops) = 3
    /\ rec_ops[2].action_type = "WAIT"
    /\ rec_ops[2].duration = <<100>>
    /\ rec_stamps[3] - rec_stamps[1] = 1004

\* C28: whenever no _record_operation is under way the file holds the
\* sequence that is in memory (no file counts as the empty sequence).
C28_FileEqualsMemory ==
    \/ json_file = SaveToJson(rec_ops)
    \/ rec_ops = <<>> /\ ~json_file.exists

\* A line with fewer than four parts, or an axis line whose value is no
\* number.
Malformed(line) ==
    \/ line.parts < 4
    \/ /\ line.type = "EV_ABS"
       /\ \E k \in 1..Len(line.value) :
             line.value[k] \notin {"0", "1", "2", "3", "4", "5", "6", "7", "8", "9",
                                   "a", "b", "c", "d", "e", "f",
                                   "A", "B", "C", "D", "E", "F", "-", "+"}

\* C29: a malformed or unparseable line is skipped: every touch accumulator,
\* every pending text and the operations stay as they are, and the listener
\* goes on.
C29_MalformedLineSkipped ==
    [][(rec_lines' = rec_lines + 1 /\ Malformed(rec_line')) =>
          /\ rec_acc' = rec_acc
          /\ rec_kbd' = rec_kbd
          /\ rec_ops' = rec_ops
          /\ rec_pc' = rec_pc
          /\ rec_adb' = rec_adb]_vars

\* C30: in the step in which the listener sees the connection lost,
\* recording stops (is_recording becomes false) and every pending text that
\* is not blank is committed as an input_text operation.
C30_TransportLossStopsRecording ==
    [][(rec_adb # "lost" /\ rec_adb' = "lost") =>
          /\ rec_pc' # "recording"
          /\ \A d \in DeviceIds :
                Strip(rec_kbd[d]) # <<>> =>
                    \E k \in (Len(rec_ops) + 1)..Len(rec_ops') :
                        /\ rec_ops'[k].action_type = "input_text"
                        /\ rec_ops'[k].text = Strip(rec_kbd[d])]_vars

\* C34: when no content_description matches any target and a fallback_index
\* within the snapshot is given, _click_element_by_content_description
\* clicks the element at fallback_index: exactly that one click, and no
\* failure for want of a match.
C34_DescMissClicksFallbackIndex ==
    (Done(DescFns) /\ Len(res_call.targets) > 0 /\ ~SomeDescMatch /\ FallbackInRange) =>
        /\ res_out.cmds = <<IndexCmd("click", res_call.index[1])>>
        /\ res_out.raised \in {"none", "ActuationError"}


\* C40: the name _similarize_name returns differs from the name it was
\* given.
C40_SimilarNameDiffers ==
    sim_out # <<>> => sim_out[1] # sim_name

\* C33: a click is never annotated from an element list captured for an
\* earlier action: when the capture made for the click failed, the element of
\* the recorded click is null.
C33_SnapshotNeverReused ==
    [][(Reads("SYNC") /\ Len(rec_ops') > Len(rec_ops) /\ ~rec_ui'.fresh) =>
          rec_ops'[Len(rec_ops')].element = NoElement]_vars

\* C36: whenever is_recording is true the listener thread is alive and
\* consuming events; after a failed start or a lost transport is_recording is
\* false.
C36_RecordingHasListener ==
    rec_pc = "recording" => rec_adb = "listening"

\* C31: appends to the operations never interleave, as they cannot when
\* every thread holds the recorder's mutex while it records: while the
\* listener is inside a _record_operation call, no step but the one that
\* ends this call changes the operations.
C31_AppendsNeverInterleave ==
    [][rec_job.pending => (rec_ops' = rec_ops \/ ~ rec_job'.pending)]_vars

\* The device's text is among the recorded input_text operations.
TextRecorded(ops, d) ==
    \E k \in 1..Len(ops) :
        ops[k].action_type = "input_text" /\ ops[k].text = Strip(rec_kbd[d])

\* C32: when stop_recording clears is_recording, every device's pending
\* text that is not blank has been appended as an input_text operation, and
\* stop_recording ends by returning, never by an exception.
C32_StopFlushesThenReturns ==
    [][/\ (rec_pc = "recording" /\ rec_pc' = "stopped") =>
             \A d \in DeviceIds : Strip(rec_kbd[d]) # <<>> => TextRecorded(rec_ops', d)
       /\ rec_main'.pc # "raised"]_vars

\* C35: once stop_recording has returned, no step changes the operations
\* or the output file.
C35_NoChangeAfterStop ==
    [][(rec_pc = "stopped" /\ rec_pc' = "stopped") =>
          (rec_ops' = rec_ops /\ json_file' = json_file)]_vars

\* Number of characters of the recorded input_text operations.
RECURSIVE RecordedChars(_)
RecordedChars(ops) ==
    IF ops = <<>> THEN 0
    ELSE (IF Head(ops).action_type = "input_text" THEN Len(Head(ops).text) ELSE 0)
         + RecordedChars(Tail(ops))

\* C37: no typed text is recorded twice: the recorded input_text operations
\* of a session never hold more characters than were typed in it.
C37_NoTextRecordedTwice ==
    RecordedChars(rec_ops) <= rec_typed

\* C38: whenever no _record_operation call is under way, the recorded
\* sequence is empty or starts with an operation that is no WAIT, has no two
\* adjacent WAITs, does not end with a WAIT, every WAIT lasts a second or
\* more, and the timestamps do not decrease along the sequence.
C38_RecordedShape ==
    ~ rec_job.pending =>
        /\ Len(rec_stamps) = Len(rec_ops)
        /\ rec_ops # <<>> => /\ rec_ops[1].action_type # "WAIT"
                             /\ rec_ops[Len(rec_ops)].action_type # "WAIT"
        /\ \A k \in 1..Len(rec_ops) :
              /\ rec_ops[k].action_type = "WAIT" =>
                    /\ Len(rec_ops[k].duration) = 1
                    /\ rec_ops[k].duration[1] >= 100
                    /\ k < Len(rec_ops) => rec_ops[k + 1].action_type # "WAIT"
              /\ k < Len(rec_ops) => rec_stamps[k] <= rec_stamps[k + 1]

\* C39: a start_recording made while a session is active, a stop_recording
\* made while none is, and a record_text_input made with a blank text or
\* while none is, each return at their first test: the step leaves
\* is_recording, the operations, the accumulators, the output file and the
\* listener as they were; and no step taken in an active session that stays
\* active empties the operations.
C39_IgnoredCallsChangeNothing ==
    [][/\ rec_main'.ret # rec_main.ret =>
             /\ UNCHANGED <<rec_pc, rec_ops, rec_stamps, json_file, rec_adb, rec_acc,
                            rec_kbd, rec_keys, rec_threads, rec_ui, rec_job>>
             /\ "start:recording" \in rec_main'.ret \ rec_main.ret => rec_pc = "recording"
             /\ "stop:idle" \in rec_main'.ret \ rec_main.ret => rec_pc # "recording"
       /\ (rec_pc = "recording" /\ rec_pc' = "recording") => Len(rec_ops') >= Len(rec_ops)]_vars

\* all four calls have been made and ignored, the last of them in a
\* session that has recorded an operation and holds a typed text
C39_Witness ==
    /\ rec_main.ret = {"start:recording", "stop:idle", "text:idle", "text:blank"}
    /\ rec_pc = "recording"
    /\ rec_ops # <<>>
    /\ rec_kbd["event1"] # <<>>

====
